---------------------------- MODULE Spec2Model ----------------------------
(***************************************************************************)
(* Verification model of the globe application's interaction core:         *)
(*   - EventEmitter (utils/EventEmitter.js): on / once / off / emit        *)
(*   - Controls (core/Controls.js): the idle auto-rotate timer and the     *)
(*     mouse gestures                                                      *)
(*   - Globe (core/Globe.js): camera tweens, hover and click resolution    *)
(*   - Scene (core/Scene.js): the render loop and its clock                *)
(*   - Toolbar (ui/Toolbar.js): the Home action                            *)
(*   - DataManager.getEngagementByCoords (data/DataManager.js)             *)
(* Each subsystem has its own next-state relation over its own variables;  *)
(* the variables of the other subsystems are left unchanged.               *)
(***************************************************************************)
EXTENDS Integers, Sequences, FiniteSets, TLC

VARIABLES
  \* ---- EventEmitter: the listener array of one event name --------------
  listeners,        \* this.events.get(event): sequence of listener records
  nextReg,          \* identity of the next listener object created by on()
  snapshot,         \* the copy the emit that just returned took (slice())
  invoked,          \* listener records that emit called, in call order
  emitThrew,        \* TRUE iff that emit let an exception reach its caller
  invokedOnce,      \* once-listeners (by identity) that have been called
  invokedAgain,     \* once-listeners called although already called before
  \* ---- Controls: idle auto-rotate timer --------------------------------
  orbitControls,    \* TRUE while this.orbitControls is not null
  isInteracting,    \* this.state.isInteracting
  autoRotate,       \* this.orbitControls.autoRotate
  autoRotateTimeout,\* this.state.autoRotateTimeout (0 models null)
  pendingTimers,    \* the browser's active setTimeout handles
  nextTimer,        \* the handle the next setTimeout returns
  cancelledByStart, \* handles that were pending when an interaction started
  replaced,         \* handles still pending when scheduleAutoRotate cleared them
  startedBy,        \* handles whose callback emitted controls:auto-rotate-started
  ctlEvents,        \* events emitted on Controls by the last handler
  \* ---- Globe: camera tweens --------------------------------------------
  now,              \* performance.now() in milliseconds
  camPos,           \* scene.camera.position
  tweens,           \* the animate closures created by animateCameraTo
  rafQ,             \* requestAnimationFrame callbacks waiting for the next frame
  frameQ,           \* callbacks of the running frame not yet called
  frameTime,        \* the timestamp the running frame passes to its callbacks
  completed,        \* tweens that emitted camera:animation-complete
  superseded,       \* tweens still running when a newer tween was requested
  cameraWriter,     \* who wrote scene.camera.position last
  \* ---- Globe: hover and click ------------------------------------------
  engagements,      \* dataManager.data.engagements: the codes that have a record
  hoveredCountry,   \* this.hoveredCountry
  selectedCountry,  \* this.selectedCountry
  lastOp,           \* the handler that ran last
  lastInput,        \* the pointer resolution that handler received
  events,           \* events emitted on Globe by the last handler
  \* ---- Controls: mouse gestures ----------------------------------------
  perfNow,          \* performance.now() as the mouse handlers read it, in ms
  isDragging,       \* this.isDragging
  mouseDownTime,    \* this.state.mouseDownTime
  lastMousePosition,\* this.lastMousePosition (clientX, clientY)
  pressed,          \* TRUE between a mousedown and the next mouseup
  pressPath,        \* pointer path length since the last mousedown, in px
  wasClick,         \* the wasClick field of the last controls:mouse-up
  gestureEvents,    \* events emitted on Controls by the last mouse handler
  \* ---- Scene: render loop ----------------------------------------------
  isAnimating,      \* this.isAnimating
  isPaused,         \* this.isPaused
  animationId,      \* this.animationId (0 models null)
  clock,            \* this.clock (THREE.Clock): running, oldTime, elapsedTime
  deltaTime,        \* deltaTime of the last scene:animate, in ms
  sceneOp,          \* the Scene method the last step ran ("none": another handler)
  sceneEvents,      \* events emitted on Scene by the last Scene method
  rendered,         \* TRUE iff the last Scene method called renderer.render
  renderedWriter,   \* cameraWriter when renderer.render was last called
  renderedTween,    \* TRUE iff a tween was scheduled at that render
  resumeTime,       \* performance.now() at the last resume()
  elapsedTime,      \* elapsedTime of the last scene:animate, in ms
  resumed,          \* TRUE from a resume() that ended a pause to the next scene:animate
  \* ---- Globe: project arcs ---------------------------------------------
  projects,         \* dataManager.data.projects: the arcs of the data file
  arcsLoaded,       \* TRUE once loadProjectArcs has run
  arcsData,         \* the arcs handed to globe.arcsData(...)
  \* ---- Globe: region polygons ------------------------------------------
  feature,          \* the region the polygon accessors were last called with
  polygonColor,     \* what getEnhancedCountryColor returned for it
  polygonAltitude,  \* what getEnhancedCountryAltitude returned, in 1/10000
  \* ---- App: module initialization --------------------------------------
  sceneCamera,      \* TRUE iff scene.camera is set
  sceneRenderer,    \* TRUE iff scene.renderer is set
  sceneIsInitialized,    \* Scene.isInitialized
  controlsIsInitialized, \* Controls.isInitialized
  setupCall,        \* the handles the last setupOrbitControls call found
  appPc,            \* the step App.initialize has reached
  appIsInitialized, \* App.isInitialized
  appStarted,       \* TRUE once App.start has called scene.start()
  bootEvents,       \* events emitted on Controls and App since construction
  \* ---- DataManager: user notes -----------------------------------------
  userNotes,        \* this.data.userNotes: key -> note text (0: no entry)
  storedNotes,      \* localStorage item zyeta-user-notes
  saveTimeout,      \* TRUE iff the timeout this.saveTimeout is pending
  dmDestroyed,      \* TRUE once DataManager.destroy() has run
  savedAtDestroy,   \* the notes DataManager.destroy() saved
  \* ---- EngagementPanel --------------------------------------------------
  panel,            \* isVisible, currentCountryData, CSS classes, pending timeouts
  panelOp,          \* the element the last click was dispatched to ("none": no click)
  \* ---- Globe: coordinate conversion ------------------------------------
  geoInput,         \* the (lat, lng) getLocationCoords was last called with
  geoPoint,         \* the point it returned
  geoOutput,        \* the last result of pointToLatLng and the point it was given
  \* ---- Modal ------------------------------------------------------------
  modal,            \* isVisible, overlay display, content, currentModal, timeouts
  nextModal,        \* identity of the next modal opened by show()
  hideIssued,       \* the modals hide() was called for
  onHideCalled,     \* the modals whose onHide callback was invoked
  \* ---- Globe: lifecycle -------------------------------------------------
  globeInstance,    \* TRUE iff this.globe is set (null before setupGlobe, after destroy)
  globeIsInitialized,    \* Globe.isInitialized
  globeDestroyed,   \* TRUE once Globe.destroy() has run
  loadTimer,        \* ms until the arc/label timeout fires (-1: none pending)
  dataProjects,     \* dataManager.getProjects().length
  dataOffices,      \* dataManager.data.offices: its length (-1 models null)
  loadOutcome       \* what the timeout's callback did

emitterVars == <<listeners, nextReg, snapshot, invoked, emitThrew, invokedOnce, invokedAgain>>
controlsVars == <<orbitControls, isInteracting, autoRotate, autoRotateTimeout,
                  pendingTimers, nextTimer, cancelledByStart, replaced, startedBy,
                  ctlEvents>>
tweenVars == <<now, camPos, tweens, rafQ, frameQ, frameTime, completed, superseded,
               cameraWriter>>
hoverVars == <<engagements, hoveredCountry, selectedCountry, lastOp, lastInput>>
gestureVars == <<perfNow, isDragging, mouseDownTime, lastMousePosition, pressed,
                 pressPath, wasClick, gestureEvents>>
sceneVars == <<isAnimating, isPaused, animationId, clock, deltaTime, sceneOp,
               sceneEvents, rendered, renderedWriter, renderedTween, resumeTime,
               resumed, elapsedTime>>
arcVars == <<projects, arcsLoaded, arcsData>>
coreVars == <<emitterVars, controlsVars, tweenVars, hoverVars, events, gestureVars,
              sceneVars>>
styleVars == <<feature, polygonColor, polygonAltitude>>
bootVars == <<sceneCamera, sceneRenderer, sceneIsInitialized, controlsIsInitialized,
              setupCall, appPc, appIsInitialized, appStarted, bootEvents>>
notesVars == <<userNotes, storedNotes, saveTimeout, dmDestroyed, savedAtDestroy>>
panelVars == <<panel, panelOp>>
geoVars == <<geoInput, geoPoint, geoOutput>>
modalVars == <<modal, nextModal, hideIssued, onHideCalled>>
lifeVars == <<globeInstance, globeIsInitialized, globeDestroyed, loadTimer,
              dataProjects, dataOffices, loadOutcome>>
lateVars == <<modalVars, lifeVars>>
baseVars == <<coreVars, arcVars, styleVars, bootVars, notesVars, panelVars, geoVars>>
appVars == <<arcVars, styleVars, bootVars, notesVars, panelVars, geoVars, lateVars>>
vars == <<coreVars, appVars>>

\* ------------------------------------------------------------------------
\* Bounds of the model
\* ------------------------------------------------------------------------
MaxRegs == 3          \* number of on() registrations explored
MaxTimers == 4        \* number of setTimeout calls explored
MaxTweens == 2        \* number of animateCameraTo calls explored
MaxFrames == 7        \* animation time explored, in steps of 500 ms
MaxGesture == 6       \* gesture time explored, in steps of 50 ms
MaxPath == 12         \* pointer path length explored per press, in px
MaxArcs == 2          \* number of arcs in the data file
MaxWeight == 12       \* largest projectCount / totalEngagements of a region
MaxText == 2          \* number of distinct note texts
MaxPanelTimers == 2   \* pending timeouts of one kind of the engagement panel
MaxModals == 3        \* number of Modal.show calls explored

\* ========================================================================
\* EventEmitter
\* ========================================================================
Callbacks == 1 .. 4
Priorities == {0, 1}

\* What each callback function does when called (client code of the emitter):
\* 1 returns, 2 throws, 3 calls off(event, callback 1), 4 calls
\* on(event, callback 1, { priority: 1 }).
HandlerBody(cb) ==
  CASE cb = 1 -> "return"
    [] cb = 2 -> "throw"
    [] cb = 3 -> "off"
    [] cb = 4 -> "on"

\* Array.prototype.sort((a, b) => b.priority - a.priority): a stable sort,
\* higher priority first.
InsertByPriority(sorted, l) ==
  LET k == Cardinality({i \in 1 .. Len(sorted) : sorted[i].priority >= l.priority})
  IN SubSeq(sorted, 1, k) \o <<l>> \o SubSeq(sorted, k + 1, Len(sorted))

RECURSIVE SortByPriority(_)
SortByPriority(s) ==
  IF s = <<>> THEN <<>>
  ELSE InsertByPriority(SortByPriority(SubSeq(s, 1, Len(s) - 1)), s[Len(s)])

\* on(event, callback, options): push the listener, then sort.
PushListener(arr, cb, once, priority, reg) ==
  SortByPriority(Append(arr, [callback |-> cb, once |-> once,
                              priority |-> priority, reg |-> reg]))

\* listeners.splice(index, 1) with a 1-based index; past the end it removes nothing.
Splice(arr, index) ==
  IF index >= 1 /\ index <= Len(arr)
  THEN SubSeq(arr, 1, index - 1) \o SubSeq(arr, index + 1, Len(arr))
  ELSE arr

\* off(event, callback): remove the first listener with that callback.
RemoveCallback(arr, cb) ==
  LET hits == {i \in 1 .. Len(arr) : arr[i].callback = cb}
  IN IF hits = {} THEN arr
     ELSE Splice(arr, CHOOSE i \in hits : \A j \in hits : i <= j)

\* try { listener.callback(...args) } catch (error) { console.error(...) }:
\* TRUE iff the exception of a throwing callback leaves emit.
EscapesMut(l) == HandlerBody(l.callback) = "throw"
Escapes(l) == FALSE

\* if (listener.once) this.events.get(event).splice(i, 1)
RemoveOnce(live, l, i) == IF l.once THEN Splice(live, i) ELSE live

\* One iteration of emit's loop on the copy, at index i; st is the emitter state.
CallListener(copy, i, st) ==
  LET l == copy[i]
      body == HandlerBody(l.callback)
      live1 == CASE body = "off" -> RemoveCallback(st.live, 1)
                 [] body = "on" -> PushListener(st.live, 1, FALSE, 1, st.reg)
                 [] OTHER -> st.live
  IN [live |-> IF Escapes(l) THEN live1 ELSE RemoveOnce(live1, l, i),
      reg |-> IF body = "on" THEN st.reg + 1 ELSE st.reg,
      inv |-> Append(st.inv, l),
      threw |-> Escapes(l),
      once1 |-> IF l.once THEN st.once1 \cup {l.reg} ELSE st.once1,
      once2 |-> IF l.once /\ l.reg \in st.once1 THEN st.once2 \cup {l.reg} ELSE st.once2]

\* for (let i = listeners.length - 1; i >= 0; i--) { ... }
RECURSIVE EmitLoop(_, _, _)
EmitLoop(copy, i, st) ==
  IF i < 1 \/ st.threw THEN st
  ELSE EmitLoop(copy, i - 1, CallListener(copy, i, st))

EmitResult ==
  EmitLoop(listeners, Len(listeners),
           [live |-> listeners, reg |-> nextReg, inv |-> <<>>, threw |-> FALSE,
            once1 |-> invokedOnce, once2 |-> invokedAgain])

\* on(event, callback, options) and once(event, callback, options)
On(cb, once, priority) ==
  /\ nextReg <= MaxRegs
  /\ listeners' = PushListener(listeners, cb, once, priority, nextReg)
  /\ nextReg' = nextReg + 1
  /\ snapshot' = <<>>
  /\ invoked' = <<>>
  /\ emitThrew' = FALSE
  /\ UNCHANGED <<invokedOnce, invokedAgain>>

\* off(event, callback)
Off(cb) ==
  /\ \E i \in 1 .. Len(listeners) : listeners[i].callback = cb
  /\ listeners' = RemoveCallback(listeners, cb)
  /\ snapshot' = <<>>
  /\ invoked' = <<>>
  /\ emitThrew' = FALSE
  /\ UNCHANGED <<nextReg, invokedOnce, invokedAgain>>

\* emit(event, ...args)
Emit ==
  /\ EmitResult.reg <= MaxRegs + 1
  /\ snapshot' = listeners
  /\ listeners' = EmitResult.live
  /\ nextReg' = EmitResult.reg
  /\ invoked' = EmitResult.inv
  /\ emitThrew' = EmitResult.threw
  /\ invokedOnce' = EmitResult.once1
  /\ invokedAgain' = EmitResult.once2

OnAction == \E cb \in Callbacks, once \in BOOLEAN, p \in Priorities : On(cb, once, p)
OffAction == \E cb \in Callbacks : Off(cb)

EmitterNext ==
  /\ \/ OnAction
     \/ OffAction
     \/ Emit
  /\ UNCHANGED <<controlsVars, tweenVars, hoverVars, events, gestureVars, sceneVars, appVars>>

EmitterInit ==
  /\ listeners = <<>>
  /\ nextReg = 1
  /\ snapshot = <<>>
  /\ invoked = <<>>
  /\ emitThrew = FALSE
  /\ invokedOnce = {}
  /\ invokedAgain = {}

\* ========================================================================
\* Controls: idle auto-rotate timer
\* ========================================================================
\* The part of the Controls state the timer code reads and writes.
TimerState == [timeout |-> autoRotateTimeout, pending |-> pendingTimers, auto |-> autoRotate]

\* stopAutoRotate()
StopAutoRotateMut(c) ==
  [timeout |-> 0, pending |-> c.pending,
   auto |-> IF orbitControls THEN FALSE ELSE c.auto]
StopAutoRotate(c) ==
  [timeout |-> 0,
   pending |-> IF c.timeout # 0 THEN c.pending \ {c.timeout} ELSE c.pending,
   auto |-> IF orbitControls THEN FALSE ELSE c.auto]

\* scheduleAutoRotate(): stopAutoRotate(), then setTimeout(..., 3000) returns id.
ScheduleAutoRotateMut(c, id) ==
  [timeout |-> id, pending |-> c.pending \cup {id}, auto |-> c.auto]
ScheduleAutoRotate(c, id) ==
  LET s == StopAutoRotate(c)
  IN [timeout |-> id, pending |-> s.pending \cup {id}, auto |-> s.auto]

SetTimerState(c) ==
  /\ autoRotateTimeout' = c.timeout
  /\ pendingTimers' = c.pending
  /\ autoRotate' = c.auto

\* orbitControls 'start' listener
InteractionStart ==
  /\ orbitControls
  /\ isInteracting' = TRUE
  /\ SetTimerState(StopAutoRotate(TimerState))
  /\ cancelledByStart' = cancelledByStart \cup pendingTimers
  /\ ctlEvents' = <<"controls:interaction-start">>
  /\ UNCHANGED <<orbitControls, nextTimer, replaced, startedBy>>

\* orbitControls 'end' listener
InteractionEnd ==
  /\ orbitControls
  /\ nextTimer <= MaxTimers
  /\ isInteracting' = FALSE
  /\ SetTimerState(ScheduleAutoRotate(TimerState, nextTimer))
  /\ nextTimer' = nextTimer + 1
  /\ replaced' = replaced \cup pendingTimers
  /\ ctlEvents' = <<"controls:interaction-end">>
  /\ UNCHANGED <<orbitControls, cancelledByStart, startedBy>>

\* toggleAutoRotate() (keys 'a' and space)
ToggleAutoRotate ==
  /\ orbitControls
  /\ nextTimer <= MaxTimers
  /\ LET flipped == [TimerState EXCEPT !.auto = ~autoRotate]
         after == IF flipped.auto THEN ScheduleAutoRotate(flipped, nextTimer)
                  ELSE StopAutoRotate(flipped)
     IN /\ SetTimerState(after)
        /\ nextTimer' = IF flipped.auto THEN nextTimer + 1 ELSE nextTimer
        /\ replaced' = IF flipped.auto THEN replaced \cup pendingTimers ELSE replaced
        /\ ctlEvents' = <<IF after.auto THEN "controls:auto-rotate:true"
                          ELSE "controls:auto-rotate:false">>
  /\ UNCHANGED <<orbitControls, isInteracting, cancelledByStart, startedBy>>

\* cancelInteraction() (Escape key)
CancelInteraction ==
  /\ orbitControls
  /\ isInteracting' = FALSE
  /\ ctlEvents' = <<"controls:interaction-cancelled">>
  /\ UNCHANGED <<orbitControls, autoRotate, autoRotateTimeout, pendingTimers,
                 nextTimer, cancelledByStart, replaced, startedBy>>

\* The callback scheduleAutoRotate handed to setTimeout runs for handle id.
TimerFire(id) ==
  /\ id \in pendingTimers
  /\ pendingTimers' = pendingTimers \ {id}
  /\ IF orbitControls /\ ~isInteracting
     THEN /\ autoRotate' = TRUE
          /\ startedBy' = startedBy \cup {id}
          /\ ctlEvents' = <<"controls:auto-rotate-started">>
     ELSE /\ ctlEvents' = <<>>
          /\ UNCHANGED <<autoRotate, startedBy>>
  /\ UNCHANGED <<orbitControls, isInteracting, autoRotateTimeout, nextTimer,
                 cancelledByStart, replaced>>

\* Controls.destroy()
ControlsDestroy ==
  /\ orbitControls
  /\ SetTimerState(StopAutoRotate(TimerState))
  /\ orbitControls' = FALSE
  /\ ctlEvents' = <<>>
  /\ UNCHANGED <<isInteracting, nextTimer, cancelledByStart, replaced, startedBy>>

TimerFireAction == \E id \in pendingTimers : TimerFire(id)

ControlsNext ==
  /\ \/ InteractionStart
     \/ InteractionEnd
     \/ ToggleAutoRotate
     \/ CancelInteraction
     \/ TimerFireAction
     \/ ControlsDestroy
  /\ UNCHANGED <<emitterVars, tweenVars, hoverVars, events, gestureVars, sceneVars, appVars>>

ControlsInit ==
  /\ orbitControls = TRUE
  /\ isInteracting = FALSE
  /\ autoRotate = FALSE
  /\ autoRotateTimeout = 0
  /\ pendingTimers = {}
  /\ nextTimer = 1
  /\ cancelledByStart = {}
  /\ replaced = {}
  /\ startedBy = {}
  /\ ctlEvents = <<>>

\* ========================================================================
\* Controls: mouse gestures (mousedown / mousemove / mouseup on the canvas)
\* ========================================================================
ClickThreshold == 200        \* this.state.clickThreshold, in ms
DragThreshold == 5           \* if (deltaLength > 5), in px

\* Pointer positions (clientX, clientY) the mouse events carry; every distance
\* between two of them is a whole number of pixels (3, 4, 5, 6 or 8).
PointerPositions == {<<0, 0>>, <<3, 0>>, <<6, 0>>, <<3, 4>>, <<3, -4>>}
GestureSteps == {50, 100}    \* time between two mouse events, in ms

\* mouseDelta.set(event.clientX - lastMousePosition.x, event.clientY - ...)
MouseDelta(pos, last) == <<pos[1] - last[1], pos[2] - last[2]>>

\* Vector2.length()
VectorLength(v) ==
  CHOOSE n \in 0 .. 2 * MaxPath : n * n = v[1] * v[1] + v[2] * v[2]

\* handleMouseMove: the value isDragging has after a move of deltaLength px
DraggingAfterMove(dragging, deltaLength) ==
  IF deltaLength > DragThreshold THEN TRUE ELSE dragging

\* handleMouseUp: !this.isDragging && clickDuration < this.state.clickThreshold
IsClick(dragging, clickDuration) == ~dragging /\ clickDuration < ClickThreshold

\* Time passes between two mouse events.
GestureTick(dt) ==
  /\ perfNow + dt <= MaxGesture * 50
  /\ perfNow' = perfNow + dt
  /\ gestureEvents' = <<>>
  /\ UNCHANGED <<isDragging, mouseDownTime, lastMousePosition, pressed, pressPath,
                 wasClick>>

\* handleMouseDown(event)
HandleMouseDown(pos) ==
  /\ isDragging' = FALSE
  /\ mouseDownTime' = perfNow
  /\ lastMousePosition' = pos
  /\ pressed' = TRUE
  /\ pressPath' = 0
  /\ gestureEvents' = <<"controls:mouse-down">>
  /\ UNCHANGED <<perfNow, wasClick>>

\* handleMouseMove(event)
HandleMouseMove(pos) ==
  LET deltaLength == VectorLength(MouseDelta(pos, lastMousePosition))
  IN /\ pos # lastMousePosition
     /\ pressed => pressPath + deltaLength <= MaxPath
     /\ isDragging' = DraggingAfterMove(isDragging, deltaLength)
     /\ lastMousePosition' = pos
     /\ pressPath' = IF pressed THEN pressPath + deltaLength ELSE pressPath
     /\ gestureEvents' = <<"controls:mouse-move">>
     /\ UNCHANGED <<perfNow, mouseDownTime, pressed, wasClick>>

\* handleMouseUp(event), with the handleClick(event) it calls
HandleMouseUp ==
  LET clickDuration == perfNow - mouseDownTime
  IN /\ pressed
     /\ gestureEvents' = IF IsClick(isDragging, clickDuration)
                         THEN <<"controls:click", "controls:mouse-up">>
                         ELSE <<"controls:mouse-up">>
     /\ isDragging' = FALSE
     /\ wasClick' = IsClick(isDragging', clickDuration)
     /\ pressed' = FALSE
     /\ UNCHANGED <<perfNow, mouseDownTime, lastMousePosition, pressPath>>

GestureTickAction == \E dt \in GestureSteps : GestureTick(dt)
HandleMouseDownAction == \E pos \in PointerPositions : HandleMouseDown(pos)
HandleMouseMoveAction == \E pos \in PointerPositions : HandleMouseMove(pos)

GestureNext ==
  /\ \/ GestureTickAction
     \/ HandleMouseDownAction
     \/ HandleMouseMoveAction
     \/ HandleMouseUp
  /\ UNCHANGED <<emitterVars, controlsVars, tweenVars, hoverVars, events, sceneVars, appVars>>

GestureInit ==
  /\ perfNow = 0
  /\ isDragging = FALSE
  /\ mouseDownTime = 0
  /\ lastMousePosition = <<0, 0>>
  /\ pressed = FALSE
  /\ pressPath = 0
  /\ wasClick = FALSE
  /\ gestureEvents = <<>>

\* ========================================================================
\* Globe: camera tweens (animateCameraTo) on the browser's animation frames
\* ========================================================================
TweenDuration == 2000          \* animateCameraTo(position, target, duration = 2000)
FrameSteps == {500, 1000, 1500}     \* time between two animation frames, in ms

InitialCameraPosition == <<0, 0, 400>>   \* Scene.setupCamera
GlobeResetPosition == <<0, 50, 500>>     \* Globe.resetView target
ControlsResetPosition == <<0, 0, 400>>   \* Controls.resetView camera.position.set

\* focusCountry: countryCenters[countryCode] mapped by getCoords(lat, lng, 2.5),
\* rounded to integers (sphere radius 100); "XXX" has no entry in countryCenters.
FocusCodes == {"SGP", "IND", "XXX"}
HasCenterMut(code) == TRUE
HasCenter(code) == code \in {"IND", "SGP", "ARE", "MYS", "THA", "IDN", "PHL", "HKG"}
FocusPosition(code) ==
  CASE code = "SGP" -> <<340, 8, -84>>
    [] code = "IND" -> <<322, 123, 63>>
    [] OTHER -> <<0, 0, 0>>

\* progress = Math.min(elapsed / duration, 1), in hundredths
ProgressMut(elapsed) ==
  IF elapsed >= TweenDuration THEN 99 ELSE (elapsed * 100) \div TweenDuration
Progress(elapsed) ==
  IF elapsed >= TweenDuration THEN 100 ELSE (elapsed * 100) \div TweenDuration

\* eased = 1 - Math.pow(1 - progress, 3), in millionths
EasedMut(progress) == 1000000 - progress * progress * progress
Eased(progress) == 1000000 - (100 - progress) * (100 - progress) * (100 - progress)

\* camera.position.lerpVectors(startPosition, targetPosition, eased)
LerpVectors(v1, v2, alpha) ==
  [i \in 1 .. 3 |-> v1[i] + ((v2[i] - v1[i]) * alpha) \div 1000000]

\* const startPosition = camera.position.clone()
StartPosition(current) == current

\* animateCameraTo(position, target) called with the camera at `current`:
\* build the animate closure and hand it to requestAnimationFrame.
AnimateCameraTo(current, position) ==
  /\ tweens' = Append(tweens, [startPosition |-> StartPosition(current),
                               targetPosition |-> position,
                               startTime |-> now])
  /\ rafQ' = Append(rafQ, Len(tweens) + 1)
  /\ superseded' = superseded \cup {rafQ[i] : i \in {j \in 1 .. Len(rafQ) : rafQ[j] > 0}}

NoCountry == [code |-> "none", obj |-> 0]
NoInput == [kind |-> "none", lat |-> 0, lng |-> 0]

\* focusCountry(countryCode), reached from the UI's country:navigate
FocusCountry(code) ==
  /\ frameQ = <<>>
  /\ lastOp' = "focusCountry"
  /\ lastInput' = [kind |-> code, lat |-> 0, lng |-> 0]
  /\ IF HasCenter(code)
     THEN /\ Len(tweens) < MaxTweens
          /\ AnimateCameraTo(camPos, FocusPosition(code))
          /\ events' = <<"country:focused">>
     ELSE /\ events' = <<>>
          /\ UNCHANGED <<tweens, rafQ, superseded>>
  /\ UNCHANGED <<now, camPos, frameQ, frameTime, completed, cameraWriter,
                 engagements, hoveredCountry, selectedCountry>>

\* Globe.resetView()
GlobeResetView ==
  /\ frameQ = <<>>
  /\ Len(tweens) < MaxTweens
  /\ AnimateCameraTo(camPos, GlobeResetPosition)
  /\ selectedCountry' = NoCountry
  /\ hoveredCountry' = NoCountry
  /\ events' = <<"view:reset">>
  /\ lastOp' = "resetView"
  /\ lastInput' = NoInput
  /\ UNCHANGED <<now, camPos, frameQ, frameTime, completed, cameraWriter,
                 engagements>>

\* Controls.resetView() ('r' key): sets the camera, calls orbitControls.update(),
\* emits view:reset on Controls, whose App listener calls Globe.resetView().
ControlsResetView ==
  /\ frameQ = <<>>
  /\ Len(tweens) < MaxTweens
  /\ camPos' = ControlsResetPosition
  /\ cameraWriter' = "orbit"
  /\ AnimateCameraTo(ControlsResetPosition, GlobeResetPosition)
  /\ selectedCountry' = NoCountry
  /\ hoveredCountry' = NoCountry
  /\ events' = <<"view:reset">>
  /\ lastOp' = "controlsResetView"
  /\ lastInput' = NoInput
  /\ UNCHANGED <<now, frameQ, frameTime, completed, engagements>>

\* Toolbar.handleButtonClick('home') (Home button, 'h' key): toolbar:home makes
\* the UI emit country:navigate with null, which focusCountry ignores; then
\* handleHomeAction calls controls.resetView(), whose view:reset listener calls
\* globe.resetView(), and calls globe.resetView() itself.
ToolbarHome ==
  /\ frameQ = <<>>
  /\ Len(tweens) + 2 <= MaxTweens
  /\ camPos' = ControlsResetPosition
  /\ cameraWriter' = "orbit"
  /\ LET tween == [startPosition |-> StartPosition(ControlsResetPosition),
                   targetPosition |-> GlobeResetPosition,
                   startTime |-> now]
     IN tweens' = tweens \o <<tween, tween>>
  /\ rafQ' = rafQ \o <<Len(tweens) + 1, Len(tweens) + 2>>
  /\ superseded' = superseded \cup {rafQ[i] : i \in {j \in 1 .. Len(rafQ) : rafQ[j] > 0}}
                              \cup {Len(tweens) + 1}
  /\ selectedCountry' = NoCountry
  /\ hoveredCountry' = NoCountry
  /\ events' = <<"view:reset", "view:reset">>
  /\ lastOp' = "toolbarHome"
  /\ lastInput' = NoInput
  /\ UNCHANGED <<now, frameQ, frameTime, completed, engagements>>

\* The browser starts an animation frame dt ms after the previous one: the
\* callbacks registered so far are called in registration order.
FrameBegin(dt) ==
  /\ frameQ = <<>>
  /\ now + dt <= MaxFrames * 500
  /\ now' = now + dt
  /\ frameTime' = now + dt
  /\ frameQ' = rafQ
  /\ rafQ' = <<>>
  /\ events' = <<>>
  /\ lastOp' = "frame"
  /\ lastInput' = NoInput
  /\ UNCHANGED <<camPos, tweens, completed, superseded, cameraWriter,
                 engagements, hoveredCountry, selectedCountry>>

\* The animate closure of tween Head(frameQ) is called with frameTime.
TweenCallback ==
  /\ frameQ # <<>>
  /\ Head(frameQ) > 0
  /\ LET id == Head(frameQ)
         t == tweens[id]
         progress == Progress(frameTime - t.startTime)
     IN /\ camPos' = LerpVectors(t.startPosition, t.targetPosition, Eased(progress))
        /\ cameraWriter' = "tween"
        /\ IF progress < 100
           THEN /\ rafQ' = Append(rafQ, id)
                /\ events' = <<>>
                /\ UNCHANGED completed
           ELSE /\ completed' = completed \cup {id}
                /\ events' = <<"camera:animation-complete">>
                /\ UNCHANGED rafQ
  /\ frameQ' = Tail(frameQ)
  /\ lastOp' = "animate"
  /\ lastInput' = NoInput
  /\ UNCHANGED <<now, tweens, frameTime, superseded,
                 engagements, hoveredCountry, selectedCountry>>

FocusCountryAction == \E code \in FocusCodes : FocusCountry(code)
FrameBeginAction == \E dt \in FrameSteps : FrameBegin(dt)

TweenInit ==
  /\ now = 0
  /\ camPos = InitialCameraPosition
  /\ tweens = <<>>
  /\ rafQ = <<>>
  /\ frameQ = <<>>
  /\ frameTime = 0
  /\ completed = {}
  /\ superseded = {}
  /\ cameraWriter = "scene"

\* ========================================================================
\* Globe: hover and click resolution
\* ========================================================================
\* countryBounds of getEngagementByCoords, in table order, in hundredths of a degree
CountryBounds ==
  << [code |-> "IND", latMin |-> 600, latMax |-> 3700, lngMin |-> 6800, lngMax |-> 9700],
     [code |-> "SGP", latMin |-> 110, latMax |-> 150, lngMin |-> 10360, lngMax |-> 10400],
     [code |-> "ARE", latMin |-> 2200, latMax |-> 2650, lngMin |-> 5100, lngMax |-> 5700],
     [code |-> "MYS", latMin |-> 80, latMax |-> 750, lngMin |-> 9900, lngMax |-> 12000],
     [code |-> "THA", latMin |-> 550, latMax |-> 2100, lngMin |-> 9700, lngMax |-> 10600],
     [code |-> "IDN", latMin |-> -1100, latMax |-> 600, lngMin |-> 9500, lngMax |-> 14100],
     [code |-> "PHL", latMin |-> 400, latMax |-> 2100, lngMin |-> 11600, lngMax |-> 12700],
     [code |-> "HKG", latMin |-> 2210, latMax |-> 2260, lngMin |-> 11380, lngMax |-> 11450] >>

\* The codes whose engagement record the data file may or may not hold.
DataCodes == {"IND", "SGP", "MYS"}

\* Surface points the pointer ray resolves to (pointToLatLng), in hundredths of a
\* degree: Singapore, central India, Kuala Lumpur, the Gulf of Guinea.
Coords ==
  { [kind |-> "point", lat |-> 135, lng |-> 10382],
    [kind |-> "point", lat |-> 2059, lng |-> 7896],
    [kind |-> "point", lat |-> 314, lng |-> 10169],
    [kind |-> "point", lat |-> 0, lng |-> 0] }

\* What a pointer event resolves to: no intersection with the globe ("off"), an
\* intersection whose conversion fails (pointToLatLng returns null, "bad"), or a
\* coordinate.
PointerInputs ==
  {[kind |-> "off", lat |-> 0, lng |-> 0], [kind |-> "bad", lat |-> 0, lng |-> 0]} \cup Coords

InBounds(b, lat, lng) ==
  lat >= b.latMin /\ lat <= b.latMax /\ lng >= b.lngMin /\ lng <= b.lngMax

\* The object identity a newly built object gets: one no retained reference has.
FreshObj ==
  CHOOSE n \in 1 .. 3 : n # hoveredCountry.obj /\ n # selectedCountry.obj

\* for (const [country, bounds] of Object.entries(countryBounds)): the code of the
\* first box that contains the point, "none" when no box does.
FirstBoxMut(lat, lng) ==
  LET hits == {i \in 1 .. Len(CountryBounds) : InBounds(CountryBounds[i], lat, lng)}
  IN IF hits = {} THEN "none"
     ELSE CountryBounds[CHOOSE i \in hits : \A j \in hits : i >= j].code
FirstBox(lat, lng) ==
  LET hits == {i \in 1 .. Len(CountryBounds) : InBounds(CountryBounds[i], lat, lng)}
  IN IF hits = {} THEN "none"
     ELSE CountryBounds[CHOOSE i \in hits : \A j \in hits : i <= j].code

\* getEngagementByCoords(lat, lng): the first box containing the point decides;
\* a new object { countryCode, ...record } if that country has a record, else null.
GetEngagementByCoords(lat, lng) ==
  LET code == FirstBox(lat, lng)
  IN IF code # "none" /\ code \in engagements
     THEN [code |-> code, obj |-> FreshObj]
     ELSE NoCountry

\* handleCountryHover(country, prevCountry): the new hoveredCountry and the events
HandleCountryHover(country) ==
  /\ hoveredCountry' = country
  /\ events' = IF country # NoCountry THEN <<"country:hovered">>
               ELSE <<"country:hover-end">>

\* engagementData !== this.hoveredCountry: two references to different objects
NotSameObject(a, b) == a.obj # b.obj

\* if (this.hoveredCountry) in the scene:mousemove listener, pointer off the globe
LeftWhileHoveredMut(h) == TRUE
LeftWhileHovered(h) == h # NoCountry

\* scene:mousemove listener -> handleGlobeHover
MouseMove(input) ==
  /\ frameQ = <<>>
  /\ lastOp' = "mousemove"
  /\ lastInput' = input
  /\ IF input.kind = "off"
     THEN IF LeftWhileHovered(hoveredCountry)
          THEN HandleCountryHover(NoCountry)
          ELSE events' = <<>> /\ UNCHANGED hoveredCountry
     ELSE IF input.kind = "bad"
          THEN events' = <<>> /\ UNCHANGED hoveredCountry
          ELSE LET engagementData == GetEngagementByCoords(input.lat, input.lng)
               IN IF engagementData # NoCountry
                     /\ NotSameObject(engagementData, hoveredCountry)
                  THEN HandleCountryHover(engagementData)
                  ELSE IF engagementData = NoCountry /\ hoveredCountry # NoCountry
                       THEN HandleCountryHover(NoCountry)
                       ELSE events' = <<>> /\ UNCHANGED hoveredCountry
  /\ UNCHANGED <<tweenVars, engagements, selectedCountry>>

\* handleGlobeClick(event, intersection): the event emitted for the lookup result
ClickEvent(engagementData) ==
  IF engagementData # NoCountry THEN "country:clicked" ELSE "globe:clicked"

\* scene:click listener -> handleGlobeClick
Click(input) ==
  /\ frameQ = <<>>
  /\ lastOp' = "click"
  /\ lastInput' = input
  /\ IF input.kind = "off"
     THEN /\ selectedCountry' = NoCountry
          /\ events' = <<"globe:deselected">>
     ELSE IF input.kind = "bad"
          THEN events' = <<>> /\ UNCHANGED selectedCountry
          ELSE LET engagementData == GetEngagementByCoords(input.lat, input.lng)
               IN /\ selectedCountry' = IF engagementData # NoCountry
                                        THEN engagementData ELSE selectedCountry
                  /\ events' = <<ClickEvent(engagementData)>>
  /\ UNCHANGED <<tweenVars, engagements, hoveredCountry>>

MouseMoveAction == \E input \in PointerInputs : MouseMove(input)
ClickAction == \E input \in PointerInputs : Click(input)

HoverInit ==
  /\ hoveredCountry = NoCountry
  /\ selectedCountry = NoCountry
  /\ lastOp = "init"
  /\ lastInput = NoInput
  /\ events = <<>>

\* ========================================================================
\* Controls: the orbit limits and the user's orbit rotation
\* ========================================================================
MinDistance == 200           \* config.minDistance
MaxDistance == 1000          \* config.maxDistance

\* camera.position.distanceTo(orbitControls.target) squared; the target is (0,0,0)
DistanceSq(pos) == pos[1] * pos[1] + pos[2] * pos[2] + pos[3] * pos[3]

WithinDistance(pos) ==
  /\ DistanceSq(pos) >= MinDistance * MinDistance
  /\ DistanceSq(pos) <= MaxDistance * MaxDistance

\* The polar angle (from the +Y axis) lies in [minPolarAngle, maxPolarAngle] =
\* [PI / 3.5, PI - PI / 3]: its cosine y / distance lies in [-1/2, cos(PI / 3.5)],
\* and cos(PI / 3.5)^2 = 0.3887...
WithinPolar(pos) ==
  /\ pos[2] > 0 => 1000 * pos[2] * pos[2] <= 389 * DistanceSq(pos)
  /\ pos[2] < 0 => 4 * pos[2] * pos[2] <= DistanceSq(pos)

\* A pointer drag handled by OrbitControls (enableRotate, no azimuth limits)
\* turns the camera about the vertical axis through the target; here by half a
\* turn, which keeps the distance and the polar angle.
RotatedHalfTurn(pos) == <<-pos[1], pos[2], -pos[3]>>

OrbitRotate ==
  /\ frameQ = <<>>
  /\ orbitControls
  /\ camPos' = RotatedHalfTurn(camPos)
  /\ cameraWriter' = "orbit"
  /\ events' = <<>>
  /\ lastOp' = "orbit"
  /\ lastInput' = NoInput
  /\ UNCHANGED <<now, tweens, rafQ, frameQ, frameTime, completed, superseded,
                 engagements, hoveredCountry, selectedCountry>>

\* Pointer events resolved against the region boxes.
LookupNext ==
  /\ \/ MouseMoveAction
     \/ ClickAction
  /\ UNCHANGED <<emitterVars, controlsVars, gestureVars, sceneVars, appVars>>

\* Camera tweens together with the user's orbit rotation.
ViewportNext ==
  /\ \/ OrbitRotate
     \/ FocusCountryAction
     \/ GlobeResetView
     \/ FrameBeginAction
     \/ TweenCallback
  /\ UNCHANGED <<emitterVars, controlsVars, gestureVars, sceneVars, appVars>>

\* ========================================================================
\* Globe: project arcs (loadProjectArcs)
\* ========================================================================
\* A coordinate as JSON.parse delivers it: a number (finite, or Infinity for a
\* literal such as 1e999), null, or a string. A string has a leading numeric
\* prefix or none (digits), worth n, and trailing other characters or none (junk).
Num(n) == [t |-> "number", n |-> n, fin |-> TRUE, digits |-> TRUE, junk |-> FALSE]
Infinite == [t |-> "number", n |-> 0, fin |-> FALSE, digits |-> FALSE, junk |-> FALSE]
Null == [t |-> "null", n |-> 0, fin |-> FALSE, digits |-> FALSE, junk |-> FALSE]
Str(n, digits, junk) ==
  [t |-> "string", n |-> n, fin |-> FALSE, digits |-> digits, junk |-> junk]

\* 45, -90, 95, 1e999, null, "45", "45deg", "abc"
LatValues ==
  {Num(45), Num(-90), Num(95), Infinite, Null,
   Str(45, TRUE, FALSE), Str(45, TRUE, TRUE), Str(0, FALSE, TRUE)}
\* 100, -180, 181
LngValues == {Num(100), Num(-180), Num(181)}

\* The arcs a data file may hold: any start point, ending at (10, 20) or (95, 20).
ArcValues ==
  [startLat : LatValues, startLng : LngValues, endLat : {Num(10), Num(95)},
   endLng : {Num(20)}]

\* parseFloat(v): the number itself; for a string (null reads "null") the value
\* of its longest numeric prefix, NaN when there is none.
NaN == [nan |-> TRUE, fin |-> FALSE, n |-> 0]
ParseFloat(v) ==
  CASE v.t = "number" -> [nan |-> FALSE, fin |-> v.fin, n |-> v.n]
    [] v.t = "string" /\ v.digits -> [nan |-> FALSE, fin |-> TRUE, n |-> v.n]
    [] OTHER -> NaN

\* !isNaN(x) && x >= lo && x <= hi  (Infinity fails x <= hi)
NumberInRange(x, lo, hi) == ~x.nan /\ x.fin /\ x.n >= lo /\ x.n <= hi

\* the isValid of the filter callback
IsValidArc(arc) ==
  /\ NumberInRange(ParseFloat(arc.startLat), -90, 90)
  /\ NumberInRange(ParseFloat(arc.endLat), -90, 90)
  /\ NumberInRange(ParseFloat(arc.startLng), -180, 180)
  /\ NumberInRange(ParseFloat(arc.endLng), -180, 180)

\* legacyProjects.filter(...): the valid arcs, in their order
FilterValid(arcs) == SelectSeq(arcs, IsValidArc)

\* One more arc is read from the data file before the Globe is initialized.
AddProject(arc) ==
  /\ ~arcsLoaded
  /\ Len(projects) < MaxArcs
  /\ projects' = Append(projects, arc)
  /\ UNCHANGED <<arcsLoaded, arcsData>>

\* loadProjectArcs(): an empty list returns before arcsData is called
LoadProjectArcs ==
  /\ ~arcsLoaded
  /\ arcsLoaded' = TRUE
  /\ arcsData' = IF projects = <<>> THEN arcsData ELSE FilterValid(projects)
  /\ UNCHANGED projects

AddProjectAction == \E arc \in ArcValues : AddProject(arc)

ArcNext ==
  /\ \/ AddProjectAction
     \/ LoadProjectArcs
  /\ UNCHANGED <<coreVars, styleVars, bootVars, notesVars, panelVars, geoVars, lateVars>>

ArcInit ==
  /\ projects = <<>>
  /\ arcsLoaded = FALSE
  /\ arcsData = <<>>

\* ========================================================================
\* Globe: region polygon color and altitude
\* ========================================================================
\* Colors: channels r, g, b in 0 .. 2550 (tenths of 1/255), alpha a in percent.
NeutralColor == [r |-> 2550, g |-> 2550, b |-> 2550, a |-> 50]  \* colors.defaultCountry
HighlightColor == [r |-> 0, g |-> 2120, b |-> 2550, a |-> 100]  \* colors.zyetaBlue
HomeColor == [r |-> 2550, g |-> 2150, b |-> 0, a |-> 100]       \* colors.india

\* new THREE.Color(style): the r, g, b of the style; an alpha component is ignored
ThreeColor(c) == [r |-> c.r, g |-> c.g, b |-> c.b, a |-> 100]

\* Math.min(countryData.projectCount / 10, 1), in tenths
Intensity(projectCount) == IF projectCount > 10 THEN 10 ELSE projectCount

\* interpolateColor(color1, color2, factor): new THREE.Color(color1).lerp(
\* new THREE.Color(color2), factor), factor in tenths
InterpolateColor(color1, color2, factor) ==
  LET c1 == ThreeColor(color1)
      c2 == ThreeColor(color2)
  IN [r |-> c1.r + ((c2.r - c1.r) * factor) \div 10,
      g |-> c1.g + ((c2.g - c1.g) * factor) \div 10,
      b |-> c1.b + ((c2.b - c1.b) * factor) \div 10,
      a |-> 100]

\* The regions the accessors are called with: the home region, a region with an
\* entry in countryDataMap and a region without one.
RegionCodes == {"IND", "SGP", "FRA"}
NoData == [present |-> FALSE, projectCount |-> 0, totalEngagements |-> 0]
CountryData ==
  {NoData} \cup [present : {TRUE}, projectCount : -2 .. MaxWeight,
                 totalEngagements : 0 .. MaxWeight]

\* getEnhancedCountryColor(country), countryData = countryDataMap.get(isoCode)
GetEnhancedCountryColor(isoCode, countryData) ==
  IF isoCode = "IND" THEN HomeColor
  ELSE IF countryData.present
       THEN InterpolateColor(NeutralColor, HighlightColor,
                             Intensity(countryData.projectCount))
       ELSE NeutralColor

HomeAltitude == 250          \* 0.025
\* getEnhancedCountryAltitude(country), in 1/10000
GetEnhancedCountryAltitude(isoCode, countryData) ==
  IF isoCode = "IND" THEN HomeAltitude
  ELSE IF countryData.present
       THEN 100 + countryData.totalEngagements * 20
       ELSE 50

\* three-globe calls the hexPolygonColor and hexPolygonAltitude accessors for a
\* region.
StylePolygon(isoCode, countryData) ==
  /\ feature' = [isoCode |-> isoCode, data |-> countryData]
  /\ polygonColor' = GetEnhancedCountryColor(isoCode, countryData)
  /\ polygonAltitude' = GetEnhancedCountryAltitude(isoCode, countryData)

StyleNext ==
  /\ \E isoCode \in RegionCodes, countryData \in CountryData :
       /\ (isoCode = "FRA") = (countryData = NoData)
       /\ StylePolygon(isoCode, countryData)
  /\ UNCHANGED <<coreVars, arcVars, bootVars, notesVars, panelVars, geoVars, lateVars>>

StyleInit ==
  /\ feature = [isoCode |-> "none", data |-> NoData]
  /\ polygonColor = NeutralColor
  /\ polygonAltitude = 0

\* ========================================================================
\* Scene: the render loop (start / animate / pause / resume / stop)
\* ========================================================================
\* A requestAnimationFrame registration of Scene.animate with handle h is the
\* entry -h of rafQ; the entries above 0 are the tweens' animate closures.
SceneCallbacks(q) == {q[i] : i \in {j \in 1 .. Len(q) : q[j] < 0}}
TweenScheduled ==
  \/ \E i \in 1 .. Len(rafQ) : rafQ[i] > 0
  \/ \E i \in 1 .. Len(frameQ) : frameQ[i] > 0

\* The handle requestAnimationFrame returns: one no pending registration has.
FreshHandle ==
  CHOOSE h \in 1 .. 4 :
    /\ h # animationId
    /\ -h \notin SceneCallbacks(rafQ) \cup SceneCallbacks(frameQ)
    /\ \A g \in 1 .. h - 1 :
         g = animationId \/ -g \in SceneCallbacks(rafQ) \cup SceneCallbacks(frameQ)

\* cancelAnimationFrame(id)
CancelAnimationFrame(q, id) == SelectSeq(q, LAMBDA e : e # -id)

\* THREE.Clock.start(): oldTime = now(), elapsedTime = 0, running = true
ClockStartMut(c, t) == [c EXCEPT !.running = TRUE]
ClockStart(c, t) == [running |-> TRUE, oldTime |-> t, elapsedTime |-> 0]

\* THREE.Clock.getDelta(): starts a clock that is not running and returns 0,
\* else returns the time since the previous call and adds it to elapsedTime.
ClockGetDelta(c, t) ==
  IF ~c.running
  THEN [clock |-> ClockStart(c, t), diff |-> 0]
  ELSE [clock |-> [running |-> TRUE, oldTime |-> t,
                   elapsedTime |-> c.elapsedTime + (t - c.oldTime)],
        diff |-> t - c.oldTime]

\* if (this.isAnimating) return;  in start()
AlreadyRunningMut(animating) == FALSE
AlreadyRunning(animating) == animating

\* if (this.isPaused) return;  in animate()
SkipFrameMut(paused) == FALSE
SkipFrame(paused) == paused

\* animate() from "this.animationId = requestAnimationFrame(this.animate)" on,
\* with isPaused = paused; `after` are the events the caller emits afterwards.
\* The scene:animate listener of Controls calls orbitControls.update(), which
\* rewrites camera.position (the same pose when there is no pointer momentum).
AnimateBody(paused, after) ==
  /\ animationId' = FreshHandle
  /\ rafQ' = Append(rafQ, -FreshHandle)
  /\ IF SkipFrame(paused)
     THEN /\ sceneEvents' = after
          /\ rendered' = FALSE
          /\ UNCHANGED <<clock, deltaTime, cameraWriter, renderedWriter, renderedTween,
                         resumed, elapsedTime>>
     ELSE /\ clock' = ClockGetDelta(clock, now).clock
          /\ deltaTime' = ClockGetDelta(clock, now).diff
          /\ sceneEvents' = <<"scene:animate">> \o after
          /\ cameraWriter' = IF orbitControls THEN "orbit" ELSE cameraWriter
          /\ rendered' = TRUE
          /\ renderedWriter' = cameraWriter'
          /\ renderedTween' = TweenScheduled
          /\ resumed' = FALSE
          /\ elapsedTime' = clock'.elapsedTime

\* Scene.start(), with the animate() it calls
SceneStart ==
  /\ frameQ = <<>>
  /\ sceneOp' = "start"
  /\ IF AlreadyRunning(isAnimating)
     THEN /\ sceneEvents' = <<>>
          /\ rendered' = FALSE
          /\ UNCHANGED <<isAnimating, isPaused, animationId, rafQ, clock, deltaTime,
                         cameraWriter, renderedWriter, renderedTween, resumed,
                         elapsedTime>>
     ELSE /\ isAnimating' = TRUE
          /\ isPaused' = FALSE
          /\ AnimateBody(FALSE, <<"scene:started">>)
  /\ UNCHANGED <<resumeTime, now, camPos, tweens, frameQ, frameTime, completed,
                 superseded, hoverVars, events>>

\* Scene.animate() called by the browser as the frame callback Head(frameQ)
SceneAnimate ==
  /\ frameQ # <<>>
  /\ Head(frameQ) < 0
  /\ frameQ' = Tail(frameQ)
  /\ sceneOp' = "animate"
  /\ IF ~isAnimating
     THEN /\ sceneEvents' = <<>>
          /\ rendered' = FALSE
          /\ UNCHANGED <<animationId, rafQ, clock, deltaTime, cameraWriter,
                         renderedWriter, renderedTween, resumed, elapsedTime>>
     ELSE AnimateBody(isPaused, <<>>)
  /\ UNCHANGED <<isAnimating, isPaused, resumeTime, now, camPos, tweens, frameTime,
                 completed, superseded, hoverVars, events>>

\* Scene.pause()
ScenePause ==
  /\ frameQ = <<>>
  /\ sceneOp' = "pause"
  /\ isPaused' = TRUE
  /\ sceneEvents' = <<"scene:paused">>
  /\ rendered' = FALSE
  /\ UNCHANGED <<isAnimating, animationId, clock, deltaTime, renderedWriter,
                 renderedTween, resumeTime, resumed, elapsedTime,
                 tweenVars, hoverVars, events>>

\* Scene.resume()
SceneResume ==
  /\ frameQ = <<>>
  /\ sceneOp' = "resume"
  /\ isPaused' = FALSE
  /\ clock' = ClockStart(clock, now)
  /\ resumeTime' = now
  /\ resumed' = (isPaused \/ resumed)
  /\ sceneEvents' = <<"scene:resumed">>
  /\ UNCHANGED elapsedTime
  /\ rendered' = FALSE
  /\ UNCHANGED <<isAnimating, animationId, deltaTime, renderedWriter, renderedTween,
                 tweenVars, hoverVars, events>>

\* Scene.stop()
SceneStop ==
  /\ frameQ = <<>>
  /\ sceneOp' = "stop"
  /\ isAnimating' = FALSE
  /\ IF animationId # 0
     THEN /\ rafQ' = CancelAnimationFrame(rafQ, animationId)
          /\ animationId' = 0
     ELSE UNCHANGED <<rafQ, animationId>>
  /\ sceneEvents' = <<"scene:stopped">>
  /\ rendered' = FALSE
  /\ UNCHANGED <<isPaused, clock, deltaTime, renderedWriter, renderedTween,
                 resumeTime, resumed, elapsedTime, now, camPos, tweens, frameQ, frameTime,
                 completed, superseded, cameraWriter, hoverVars, events>>

\* Scene.animate() as the frame callback Head(frameQ) of a running loop, when a
\* scene:animate listener calls stop(): the frame was requested before the emit,
\* stop() cancels it and emits scene:stopped, and animate() goes on to
\* "this.renderer.render(this.scene, this.camera)".
SceneAnimateStopped ==
  /\ frameQ # <<>>
  /\ Head(frameQ) < 0
  /\ isAnimating /\ ~SkipFrame(isPaused)
  /\ frameQ' = Tail(frameQ)
  /\ sceneOp' = "animate"
  /\ clock' = ClockGetDelta(clock, now).clock
  /\ deltaTime' = ClockGetDelta(clock, now).diff
  /\ elapsedTime' = clock'.elapsedTime
  /\ isAnimating' = FALSE
  /\ rafQ' = CancelAnimationFrame(Append(rafQ, -FreshHandle), FreshHandle)
  /\ animationId' = 0
  /\ sceneEvents' = <<"scene:animate", "scene:stopped">>
  /\ cameraWriter' = IF orbitControls THEN "orbit" ELSE cameraWriter
  /\ rendered' = TRUE
  /\ renderedWriter' = cameraWriter'
  /\ renderedTween' = TweenScheduled
  /\ resumed' = FALSE
  /\ UNCHANGED <<isPaused, resumeTime, now, camPos, tweens, frameTime, completed,
                 superseded, hoverVars, events>>

\* A handler of another module runs while the Scene's own state stays as it is.
OutsideScene ==
  /\ sceneOp' = "none"
  /\ UNCHANGED <<isAnimating, isPaused, animationId, clock, deltaTime, sceneEvents,
                 rendered, renderedWriter, renderedTween, resumeTime, resumed,
                 elapsedTime>>

SceneInit ==
  /\ isAnimating = FALSE
  /\ isPaused = FALSE
  /\ animationId = 0
  /\ clock = [running |-> FALSE, oldTime |-> 0, elapsedTime |-> 0]
  /\ deltaTime = 0
  /\ sceneOp = "none"
  /\ sceneEvents = <<>>
  /\ rendered = FALSE
  /\ renderedWriter = "none"
  /\ renderedTween = FALSE
  /\ resumeTime = 0
  /\ resumed = FALSE
  /\ elapsedTime = 0

SceneNext ==
  /\ \/ SceneStart
     \/ ScenePause
     \/ SceneResume
     \/ SceneStop
     \/ SceneAnimate
     \/ FrameBeginAction /\ OutsideScene
  /\ UNCHANGED <<emitterVars, controlsVars, gestureVars, appVars>>

\* The render loop with a scene:animate listener that may stop it.
StopNext ==
  \/ SceneNext
  \/ SceneAnimateStopped /\ UNCHANGED <<emitterVars, controlsVars, gestureVars, appVars>>

\* ========================================================================
\* App: module initialization (Scene, Controls, App.initialize)
\* ========================================================================
\* Scene.initialize runs setupRenderer, setupScene, setupCamera, ... in order; a
\* step that throws leaves the handles of the earlier steps set and rethrows.
SceneOutcomes == {"ok", "rendererFails", "cameraFails"}

SceneInitialize(outcome) ==
  /\ sceneRenderer' = (sceneRenderer \/ outcome # "rendererFails")
  /\ sceneCamera' = (sceneCamera \/ outcome = "ok")
  /\ sceneIsInitialized' = (outcome = "ok")

\* setupOrbitControls: if (!this.scene.camera || !this.scene.renderer) throw
HandlesMissingMut(camera, renderer) == FALSE
HandlesMissing(camera, renderer) == ~camera \/ ~renderer

NoCall == [called |-> FALSE, camera |-> FALSE, renderer |-> FALSE]

\* TRUE iff Controls.initialize() rejects in the current state
ControlsThrows ==
  /\ ~controlsIsInitialized
  /\ HandlesMissing(sceneCamera, sceneRenderer)

\* Controls.initialize(): returns at once when initialized; otherwise runs the
\* setup, and only when it did not throw sets isInitialized and emits.
\* caught: what the caller's catch block emits when the call rejects.
ControlsInitialize(caught) ==
  IF controlsIsInitialized
  THEN UNCHANGED <<controlsIsInitialized, setupCall, bootEvents>>
  ELSE /\ setupCall' = [called |-> TRUE, camera |-> sceneCamera,
                        renderer |-> sceneRenderer]
       /\ IF HandlesMissing(sceneCamera, sceneRenderer)
          THEN /\ bootEvents' = bootEvents \o caught
               /\ UNCHANGED controlsIsInitialized
          ELSE /\ controlsIsInitialized' = TRUE
               /\ bootEvents' = Append(bootEvents, "controls:initialized")

\* App.initialize up to the first await that yields: the guard, the data
\* manager, then scene.initialize(); a rejection goes to the catch block.
AppInitializeScene(outcome) ==
  /\ appPc = "idle" /\ ~appIsInitialized
  /\ SceneInitialize(outcome)
  /\ IF outcome = "ok"
     THEN /\ appPc' = "controls"
          /\ bootEvents' = bootEvents \o <<"app:data-loaded", "app:scene-ready">>
     ELSE /\ appPc' = "failed"
          /\ bootEvents' = bootEvents \o <<"app:data-loaded", "app:error">>
  /\ UNCHANGED <<controlsIsInitialized, setupCall, appIsInitialized, appStarted>>

\* initializeModules step 4: new Controls(scene, globe), await initialize();
\* a rejection goes to the catch block of App.initialize (handleError).
AppInitializeControls ==
  /\ appPc = "controls"
  /\ ControlsInitialize(<<"app:error">>)
  /\ appPc' = IF ControlsThrows THEN "failed" ELSE "ui"
  /\ UNCHANGED <<sceneCamera, sceneRenderer, sceneIsInitialized, appIsInitialized,
                 appStarted>>

\* The rest of App.initialize: app:controls-ready, the UI, setupEventListeners,
\* start() (scene.start(), app:started), isInitialized = true, app:initialized
AppInitializeFinish ==
  /\ appPc = "ui"
  /\ SceneStart
  /\ appStarted' = TRUE
  /\ appIsInitialized' = TRUE
  /\ appPc' = "started"
  /\ bootEvents' = bootEvents \o <<"app:controls-ready", "app:ui-ready",
                                    "app:started", "app:initialized">>
  /\ UNCHANGED <<sceneCamera, sceneRenderer, sceneIsInitialized,
                 controlsIsInitialized, setupCall>>

\* Scene.destroy(): stop(), then the references are cleared; isInitialized is
\* left as it was
SceneDestroy ==
  /\ SceneStop
  /\ sceneCamera' = FALSE
  /\ sceneRenderer' = FALSE
  /\ UNCHANGED <<sceneIsInitialized, controlsIsInitialized, setupCall, appPc,
                 appIsInitialized, appStarted, bootEvents>>

\* The application from construction on: the steps of App.initialize, the
\* render loop it starts (paused and resumed by handleVisibilityChange), and
\* Scene.destroy() at any moment.
BootNext ==
  \/ /\ \/ \E outcome \in SceneOutcomes : AppInitializeScene(outcome)
        \/ AppInitializeControls
     /\ UNCHANGED <<coreVars, arcVars, styleVars, notesVars, panelVars, geoVars, lateVars>>
  \/ /\ \/ AppInitializeFinish
        \/ SceneDestroy
     /\ UNCHANGED <<emitterVars, controlsVars, gestureVars, arcVars, styleVars,
                    notesVars, panelVars, geoVars, lateVars>>
  \/ /\ appPc = "started"
     /\ \/ ScenePause
        \/ SceneResume
        \/ SceneAnimate
        \/ FrameBeginAction /\ OutsideScene
     /\ UNCHANGED <<emitterVars, controlsVars, gestureVars, appVars>>

BootInit ==
  /\ sceneCamera = FALSE
  /\ sceneRenderer = FALSE
  /\ sceneIsInitialized = FALSE
  /\ controlsIsInitialized = FALSE
  /\ setupCall = NoCall
  /\ appPc = "idle"
  /\ appIsInitialized = FALSE
  /\ appStarted = FALSE
  /\ bootEvents = <<>>

\* ========================================================================
\* DataManager: user notes and their copy in localStorage
\* ========================================================================
NoteKeys == {"IND", "SGP", "FRA"}
NoteTexts == 1 .. MaxText
NoNotes == [k \in NoteKeys |-> 0]                 \* new Map()
NoItem == [present |-> FALSE, notes |-> NoNotes]  \* getItem(...) === null

\* JSON.stringify(Object.fromEntries(userNotes)): the item holds one property
\* per entry of the map; JSON.parse and Object.entries give the entries back.
Stringify(notes) == {<<k, notes[k]>> : k \in {j \in NoteKeys : notes[j] # 0}}
Parse(json) ==
  [k \in NoteKeys |-> IF \E e \in json : e[1] = k
                      THEN (CHOOSE e \in json : e[1] = k)[2] ELSE 0]

\* saveUserData(): setItem(storageKeys.userNotes, ...) with the notes held now
SaveUserData(notes) ==
  storedNotes' = [present |-> TRUE, notes |-> Parse(Stringify(notes))]

\* setNote(key, note): set the entry, restart the one-second save timeout
SetNote(key, text) ==
  /\ ~dmDestroyed
  /\ userNotes' = [userNotes EXCEPT ![key] = text]
  /\ saveTimeout' = TRUE
  /\ UNCHANGED <<storedNotes, dmDestroyed, savedAtDestroy>>

\* deleteNote(key): delete the entry; when it existed, save at once
DeleteNote(key) ==
  /\ ~dmDestroyed
  /\ userNotes' = [userNotes EXCEPT ![key] = 0]
  /\ IF userNotes[key] # 0
     THEN SaveUserData(userNotes')
     ELSE UNCHANGED storedNotes
  /\ UNCHANGED <<saveTimeout, dmDestroyed, savedAtDestroy>>

\* The timeout of setNote fires.
SaveTimeoutFires ==
  /\ saveTimeout
  /\ saveTimeout' = FALSE
  /\ SaveUserData(userNotes)
  /\ UNCHANGED <<userNotes, dmDestroyed, savedAtDestroy>>

\* The setInterval callback of setupAutoSave fires; the interval is never
\* cleared.
AutoSave ==
  /\ SaveUserData(userNotes)
  /\ UNCHANGED <<userNotes, saveTimeout, dmDestroyed, savedAtDestroy>>

\* DataManager.destroy(): save, clear the timeout, replace this.data
DataManagerDestroy ==
  /\ ~dmDestroyed
  /\ SaveUserData(userNotes)
  /\ savedAtDestroy' = userNotes
  /\ saveTimeout' = FALSE
  /\ userNotes' = NoNotes
  /\ dmDestroyed' = TRUE

\* The page unloads: the beforeunload listener of main.js (registered first)
\* destroys the application when window.zyetaApp is set (development build),
\* then the beforeunload listener of setupAutoSave saves.
BeforeUnload(dev) ==
  /\ IF dev /\ ~dmDestroyed
     THEN /\ savedAtDestroy' = userNotes
          /\ saveTimeout' = FALSE
          /\ userNotes' = NoNotes
          /\ dmDestroyed' = TRUE
     ELSE UNCHANGED <<savedAtDestroy, saveTimeout, userNotes, dmDestroyed>>
  /\ SaveUserData(userNotes')

NotesNext ==
  /\ \/ \E key \in NoteKeys, text \in NoteTexts : SetNote(key, text)
     \/ \E key \in NoteKeys : DeleteNote(key)
     \/ SaveTimeoutFires
     \/ AutoSave
     \/ DataManagerDestroy
     \/ \E dev \in BOOLEAN : BeforeUnload(dev)
  /\ UNCHANGED <<coreVars, arcVars, styleVars, bootVars, panelVars, geoVars, lateVars>>

\* A first visit: nothing stored, loadUserData leaves the map empty.
NotesInit ==
  /\ userNotes = NoNotes
  /\ storedNotes = NoItem
  /\ saveTimeout = FALSE
  /\ dmDestroyed = FALSE
  /\ savedAtDestroy = NoNotes

\* ========================================================================
\* EngagementPanel: show, hide and the clicks that reach them
\* ========================================================================
\* show(countryData): isVisible, the hidden class removed, a 10 ms timeout
Show(p, code) ==
  [p EXCEPT !.isVisible = TRUE, !.currentCountryData = code, !.hidden = FALSE,
            !.showTimers = @ + 1]

\* hide(): nothing when not visible; else the visible class removed, a 300 ms
\* timeout
Hide(p) ==
  IF ~p.isVisible THEN p
  ELSE [p EXCEPT !.isVisible = FALSE, !.visible = FALSE, !.hideTimers = @ + 1]

\* Elements a click can be dispatched to; the close button lies in the panel.
ClickTargets == {"canvas", "navBtn", "panel", "closeBtn", "page"}
InPanel(target) == target \in {"panel", "closeBtn"}

\* The document's click listener of the panel ("click outside to close"); it
\* runs after the listeners of the target, when the event has bubbled up.
ClickOutside(p, target) ==
  IF p.isVisible /\ ~InPanel(target) /\ target # "navBtn" THEN Hide(p) ELSE p

TimersBounded ==
  /\ panel.showTimers < MaxPanelTimers
  /\ panel.hideTimers < MaxPanelTimers

\* A click on the canvas: Scene.handleClick -> scene:click -> handleGlobeClick;
\* country:clicked -> App -> UI.showEngagementPanel -> show; then the document.
CanvasClick(input) ==
  /\ TimersBounded
  /\ Click(input)
  /\ panel' = ClickOutside(IF events' = <<"country:clicked">>
                           THEN Show(panel, selectedCountry'.code) ELSE panel,
                           "canvas")
  /\ panelOp' = "canvas"

\* A click on a country navigation button: handleCountryNavigation shows the
\* panel and emits country:navigate (-> focusCountry); then the document.
NavClick(code) ==
  /\ TimersBounded
  /\ code \in engagements
  /\ FocusCountry(code)
  /\ panel' = ClickOutside(Show(panel, code), "navBtn")
  /\ panelOp' = "navBtn"

\* A click inside the panel, on its close button, or on the rest of the page
PageClick(target) ==
  /\ TimersBounded
  /\ panel' = ClickOutside(IF target = "closeBtn" THEN Hide(panel) ELSE panel, target)
  /\ panelOp' = target
  /\ UNCHANGED <<tweenVars, hoverVars, events>>

\* The timeout of show() fires: classList.add('visible')
ShowTimeout ==
  /\ panel.showTimers > 0
  /\ panel' = [panel EXCEPT !.visible = TRUE, !.showTimers = @ - 1]
  /\ UNCHANGED <<panelOp, tweenVars, hoverVars, events>>

\* The timeout of hide() fires: classList.add('hidden'), currentCountryData = null
HideTimeout ==
  /\ panel.hideTimers > 0
  /\ panel' = [panel EXCEPT !.hidden = TRUE, !.currentCountryData = "none",
                            !.hideTimers = @ - 1]
  /\ UNCHANGED <<panelOp, tweenVars, hoverVars, events>>

PanelNext ==
  /\ \/ \E input \in PointerInputs : CanvasClick(input)
     \/ \E code \in {"IND", "SGP"} : NavClick(code)
     \/ \E target \in ClickTargets \ {"canvas", "navBtn"} : PageClick(target)
     \/ ShowTimeout
     \/ HideTimeout
  /\ UNCHANGED <<emitterVars, controlsVars, gestureVars, sceneVars, arcVars,
                 styleVars, bootVars, notesVars, geoVars, lateVars>>

PanelInit ==
  /\ panel = [isVisible |-> FALSE, currentCountryData |-> "none", hidden |-> TRUE,
              visible |-> FALSE, showTimers |-> 0, hideTimers |-> 0]
  /\ panelOp = "none"

\* ========================================================================
\* Globe: geographic <-> Cartesian conversion (getCoords / toGeoCoords)
\* ========================================================================
\* Angles are whole degrees, multiples of 45; lengths are in 1/10000 of the
\* globe radius, with Half standing for sqrt(2)/2.
Half == 7071
Unit == 10000
Norm(deg) == ((deg % 360) + 360) % 360
SinDeg(deg) ==
  LET d == Norm(deg)
  IN CASE d \in {0, 180} -> 0
       [] d = 90 -> Unit
       [] d = 270 -> -Unit
       [] d \in {45, 135} -> Half
       [] OTHER -> -Half
CosDeg(deg) == SinDeg(deg + 90)

\* The coordinates explored: those whose products below are exact.
GeoLats == {-90, -45, 0, 45, 90}
GeoLngs == {-180, -135, -90, -45, 0, 45, 90, 135, 180}
GeoInputs ==
  {c \in [lat : GeoLats, lng : GeoLngs] : c.lat % 90 = 0 \/ c.lng % 90 = 0}

\* getCoords(lat, lng, 0): phi = 90 - lat, theta = 90 - lng,
\* x = r sin(phi) cos(theta), y = r cos(phi), z = r sin(phi) sin(theta)
GetLocationCoords(lat, lng) ==
  LET phi == 90 - lat
      theta == 90 - lng
  IN [x |-> (SinDeg(phi) * CosDeg(theta)) \div Unit,
      y |-> CosDeg(phi),
      z |-> (SinDeg(phi) * SinDeg(theta)) \div Unit]

\* Math.acos(y / r) in degrees
ACosDeg(p) ==
  LET rsq == p.x * p.x + p.y * p.y + p.z * p.z
  IN CASE p.y = 0 -> 90
       [] p.y * p.y = rsq -> IF p.y > 0 THEN 0 ELSE 180
       [] OTHER -> IF p.y > 0 THEN 45 ELSE 135

\* Math.atan2(z, x) in degrees: the values it can return. On the polar axis x
\* and z are both zero up to rounding, and the signs and the ratio of the
\* residues decide the angle.
ATan2Deg(z, x) ==
  CASE x = 0 /\ z = 0 -> GeoLngs \ {-180}
    [] z = 0 -> IF x > 0 THEN {0} ELSE {180}
    [] x = 0 -> IF z > 0 THEN {90} ELSE {-90}
    [] x > 0 -> IF z > 0 THEN {45} ELSE {-45}
    [] OTHER -> IF z > 0 THEN {135} ELSE {-135}

\* lng = 90 - theta - (theta < -90 ? 360 : 0); at theta = -90 the comparison is
\* decided by the rounding of atan2, either way.
LngOfThetaMut(theta) ==
  IF theta = -90 THEN {180, -180}
  ELSE {90 - theta}
LngOfTheta(theta) ==
  IF theta = -90 THEN {180, -180}
  ELSE {90 - theta - (IF theta < -90 THEN 360 ELSE 0)}

\* toGeoCoords(point): the results pointToLatLng can return for the point
PointToLatLng(p) ==
  {[lat |-> 90 - ACosDeg(p), lng |-> l] :
     l \in UNION {LngOfTheta(theta) : theta \in ATan2Deg(p.z, p.x)}}

GetLocationCoordsAction ==
  \E c \in GeoInputs :
    /\ geoInput' = c
    /\ geoPoint' = GetLocationCoords(c.lat, c.lng)
    /\ UNCHANGED geoOutput

PointToLatLngAction ==
  /\ geoPoint.y # 0 \/ geoPoint.x # 0 \/ geoPoint.z # 0
  /\ \E g \in PointToLatLng(geoPoint) :
       geoOutput' = [point |-> geoPoint, lat |-> g.lat, lng |-> g.lng]
  /\ UNCHANGED <<geoInput, geoPoint>>

GeoNext ==
  /\ \/ GetLocationCoordsAction
     \/ PointToLatLngAction
  /\ UNCHANGED <<coreVars, arcVars, styleVars, bootVars, notesVars, panelVars, lateVars>>

GeoInit ==
  /\ geoInput = [lat |-> 0, lng |-> 0]
  /\ geoPoint = [x |-> 0, y |-> 0, z |-> 0]
  /\ geoOutput = [point |-> [x |-> 0, y |-> 0, z |-> 0], lat |-> 0, lng |-> 0]

\* ========================================================================
\* Modal: show, hide and the deferred teardown
\* ========================================================================
\* Modal.show(options): the content of modal id replaces the container's, the
\* overlay is displayed, a 10 ms timeout adds the modal-show class.
ModalShow ==
  /\ nextModal <= MaxModals
  /\ modal' = [modal EXCEPT !.currentModal = nextModal, !.content = nextModal,
                            !.display = TRUE, !.isVisible = TRUE,
                            !.showTimers = @ + 1]
  /\ nextModal' = nextModal + 1
  /\ UNCHANGED <<hideIssued, onHideCalled>>

\* Modal.hide() (close button, overlay click, Escape, a search result click):
\* nothing when not visible; else the class is removed and the teardown is
\* deferred by 300 ms. isVisible stays true until the timeout runs.
ModalHide ==
  /\ modal.isVisible
  /\ modal.hideTimers < MaxModals
  /\ modal' = [modal EXCEPT !.modalShow = FALSE, !.hideTimers = @ + 1]
  /\ hideIssued' = hideIssued \cup {modal.currentModal}
  /\ UNCHANGED <<nextModal, onHideCalled>>

\* The timeout of hide() fires: display none, isVisible false, the content
\* cleared, onHide of this.currentModal called, currentModal = null.
ModalHideTimeout ==
  /\ modal.hideTimers > 0
  /\ modal' = [modal EXCEPT !.display = FALSE, !.isVisible = FALSE,
                            !.content = 0, !.currentModal = 0,
                            !.hideTimers = @ - 1]
  /\ onHideCalled' = IF modal.currentModal # 0
                     THEN onHideCalled \cup {modal.currentModal}
                     ELSE onHideCalled
  /\ UNCHANGED <<nextModal, hideIssued>>

\* The 10 ms timeout of show() fires: classList.add('modal-show')
ModalShowTimeout ==
  /\ modal.showTimers > 0
  /\ modal' = [modal EXCEPT !.modalShow = TRUE, !.showTimers = @ - 1]
  /\ UNCHANGED <<nextModal, hideIssued, onHideCalled>>

ModalNext ==
  /\ \/ ModalShow
     \/ ModalHide
     \/ ModalHideTimeout
     \/ ModalShowTimeout
  /\ UNCHANGED <<baseVars, lifeVars>>

ModalInit ==
  /\ modal = [isVisible |-> FALSE, display |-> FALSE, content |-> 0,
              currentModal |-> 0, modalShow |-> FALSE, showTimers |-> 0,
              hideTimers |-> 0]
  /\ nextModal = 1
  /\ hideIssued = {}
  /\ onHideCalled = {}

\* ========================================================================
\* Globe: initialize, the deferred arc and label load, destroy
\* ========================================================================
LoadDelay == 1000            \* setTimeout(() => this.loadArcsAndLabels(), 1000)
LifeSteps == {250, 500}      \* time between two events, in ms
NoOutcome == [ran |-> FALSE, arcs |-> "none", labels |-> "none", afterDestroy |-> FALSE]

\* The data file read by the DataManager before the Globe is built.
DataFileLoaded(n, offices) ==
  /\ ~globeIsInitialized /\ ~globeDestroyed
  /\ dataProjects' = n
  /\ dataOffices' = offices
  /\ UNCHANGED <<globeInstance, globeIsInitialized, globeDestroyed, loadTimer,
                 loadOutcome>>

\* Globe.initialize(): setupGlobe ... addToScene, then the 1000 ms timeout
GlobeInitialize ==
  /\ ~globeIsInitialized /\ ~globeDestroyed
  /\ globeInstance' = TRUE
  /\ globeIsInitialized' = TRUE
  /\ loadTimer' = LoadDelay
  /\ UNCHANGED <<globeDestroyed, dataProjects, dataOffices, loadOutcome>>

\* Time passes while the timeout is pending.
LifeTick(dt) ==
  /\ loadTimer > 0
  /\ loadTimer' = IF loadTimer > dt THEN loadTimer - dt ELSE 0
  /\ UNCHANGED <<globeInstance, globeIsInitialized, globeDestroyed, dataProjects,
                 dataOffices, loadOutcome>>

\* Globe.destroy(): this.globe = null; the timeout is not cleared
GlobeDestroy ==
  /\ globeIsInitialized /\ ~globeDestroyed
  /\ globeInstance' = FALSE
  /\ globeDestroyed' = TRUE
  /\ UNCHANGED <<globeIsInitialized, loadTimer, dataProjects, dataOffices, loadOutcome>>

\* App.destroy(): globe.destroy(), then dataManager.destroy() replaces this.data
AppDestroy ==
  /\ globeIsInitialized /\ ~globeDestroyed
  /\ globeInstance' = FALSE
  /\ globeDestroyed' = TRUE
  /\ dataProjects' = 0
  /\ dataOffices' = -1
  /\ UNCHANGED <<globeIsInitialized, loadTimer, loadOutcome>>

\* A call this.globe.<method>(...): a TypeError when this.globe is null
GlobeCall(instance) == IF instance THEN "called" ELSE "TypeError"

\* loadProjectArcs(): returns early without projects, else this.globe.arcsData
LoadArcsOutcome(instance, n) == IF n = 0 THEN "skipped" ELSE GlobeCall(instance)

\* loadOfficeLabels(): returns early when offices is null (an empty array goes
\* on), else this.globe.labelsData;
\* not reached when loadProjectArcs threw
LoadLabelsOutcome(instance, arcs, offices) ==
  IF arcs = "TypeError" THEN "none"
  ELSE IF offices = -1 THEN "skipped" ELSE GlobeCall(instance)

\* The timeout fires: loadArcsAndLabels()
LoadTimeout ==
  /\ loadTimer = 0
  /\ loadTimer' = -1
  /\ LET arcs == LoadArcsOutcome(globeInstance, dataProjects)
     IN loadOutcome' = [ran |-> TRUE, arcs |-> arcs,
                        labels |-> LoadLabelsOutcome(globeInstance, arcs, dataOffices),
                        afterDestroy |-> globeDestroyed]
  /\ UNCHANGED <<globeInstance, globeIsInitialized, globeDestroyed, dataProjects,
                 dataOffices>>

LifeNext ==
  /\ \/ \E n \in 0 .. MaxArcs, offices \in -1 .. MaxArcs : DataFileLoaded(n, offices)
     \/ GlobeInitialize
     \/ \E dt \in LifeSteps : LifeTick(dt)
     \/ GlobeDestroy
     \/ AppDestroy
     \/ LoadTimeout
  /\ UNCHANGED <<baseVars, modalVars>>

LifeInit ==
  /\ globeInstance = FALSE
  /\ globeIsInitialized = FALSE
  /\ globeDestroyed = FALSE
  /\ loadTimer = -1
  /\ dataProjects = 0
  /\ dataOffices = -1
  /\ loadOutcome = NoOutcome

\* ========================================================================
\* A press and release on the canvas, as the browser dispatches it
\* ========================================================================
\* The button is released over the canvas: the browser dispatches mouseup
\* (Controls.handleMouseUp) and then click (Scene.handleClick -> scene:click ->
\* Globe), whatever the pointer did between press and release.
CanvasRelease(input) ==
  /\ HandleMouseUp
  /\ Click(input)

PressNext ==
  \/ /\ \/ GestureTickAction
        \/ HandleMouseDownAction
        \/ HandleMouseMoveAction
     /\ UNCHANGED <<emitterVars, controlsVars, tweenVars, hoverVars, events, sceneVars,
                    appVars>>
  \/ /\ \E input \in PointerInputs : CanvasRelease(input)
     /\ UNCHANGED <<emitterVars, controlsVars, sceneVars, appVars>>

\* The running render loop together with the reset-view camera tween.
RenderNext ==
  /\ \/ SceneStart
     \/ ScenePause
     \/ SceneResume
     \/ SceneAnimate
     \/ GlobeResetView /\ OutsideScene
     \/ FrameBeginAction /\ OutsideScene
     \/ TweenCallback /\ OutsideScene
  /\ UNCHANGED <<emitterVars, controlsVars, gestureVars, appVars>>

TweenNext ==
  /\ \/ FocusCountryAction
     \/ GlobeResetView
     \/ ControlsResetView
     \/ ToolbarHome
     \/ FrameBeginAction
     \/ TweenCallback
  /\ UNCHANGED <<emitterVars, controlsVars, gestureVars, sceneVars, appVars>>

HoverNext ==
  /\ \/ MouseMoveAction
     \/ ClickAction
     \/ FocusCountryAction
     \/ GlobeResetView
     \/ ControlsResetView
  /\ UNCHANGED <<emitterVars, controlsVars, gestureVars, sceneVars, appVars>>

\* ========================================================================
\* Specifications
\* ========================================================================
\* The state after construction; the engagement data file is loaded before the
\* Globe is built and may hold a record for any of the codes.
Constructed ==
  /\ EmitterInit /\ ControlsInit /\ TweenInit /\ HoverInit /\ GestureInit /\ SceneInit
  /\ ArcInit /\ StyleInit /\ BootInit /\ NotesInit
  /\ PanelInit /\ GeoInit /\ ModalInit
  /\ LifeInit
Init == Constructed /\ engagements \in SUBSET DataCodes
DataLoaded == Constructed /\ engagements = DataCodes

SpecEmitter == DataLoaded /\ [][EmitterNext]_vars
SpecControls == DataLoaded /\ [][ControlsNext]_vars
SpecTween == DataLoaded /\ [][TweenNext]_vars

\* While the page is visible the browser keeps delivering animation frames and
\* calls every callback registered for a frame.
OutsideTween == UNCHANGED <<emitterVars, controlsVars, gestureVars, sceneVars, appVars>>
SpecTweenFair ==
  /\ SpecTween
  /\ WF_vars(FrameBeginAction /\ OutsideTween)
  /\ WF_vars(TweenCallback /\ OutsideTween)
SpecHover == Init /\ [][HoverNext]_vars
SpecGesture == DataLoaded /\ [][GestureNext]_vars
SpecScene == DataLoaded /\ [][SceneNext]_vars
SpecRender == DataLoaded /\ [][RenderNext]_vars
SpecViewport == DataLoaded /\ [][ViewportNext]_vars
SpecArcs == DataLoaded /\ [][ArcNext]_vars
SpecLookup == Init /\ [][LookupNext]_vars
SpecStyle == DataLoaded /\ [][StyleNext]_vars
SpecBoot == DataLoaded /\ [][BootNext]_vars
SpecNotes == DataLoaded /\ [][NotesNext]_vars
SpecPanel == DataLoaded /\ [][PanelNext]_vars
SpecGeo == DataLoaded /\ [][GeoNext]_vars
SpecModal == DataLoaded /\ [][ModalNext]_vars
SpecLife == DataLoaded /\ [][LifeNext]_vars
SpecPress == DataLoaded /\ [][PressNext]_vars
SpecStop == DataLoaded /\ [][StopNext]_vars

Next ==
  \/ EmitterNext \/ ControlsNext \/ TweenNext \/ HoverNext \/ GestureNext
  \/ SceneNext \/ RenderNext \/ ViewportNext \/ ArcNext \/ LookupNext \/ StyleNext
  \/ BootNext \/ NotesNext \/ PanelNext \/ GeoNext
  \/ ModalNext \/ LifeNext \/ PressNext \/ StopNext
Spec == Init /\ [][Next]_vars

\* ========================================================================
\* Properties
\* ========================================================================
TweensIdle == rafQ = <<>> /\ frameQ = <<>>
Newest == tweens[Len(tweens)]

\* C1: when a second animateCameraTo is requested before the first tween has
\* completed, the superseded tween never emits camera:animation-complete, so
\* exactly one completion is emitted once both requests have played out.
C1_SingleCompletion ==
  /\ superseded \cap completed = {}
  /\ (Len(tweens) = 2 /\ superseded = {1} /\ TweensIdle) => Cardinality(completed) = 1

C3_StartCancelsIdleTimer ==
  /\ cancelledByStart \cap startedBy = {}
  /\ cancelledByStart \cap pendingTimers = {}
  /\ ctlEvents = <<"controls:interaction-start">> => pendingTimers = {} /\ ~autoRotate

\* C3 witness: an interaction started over a pending timer, and a later
\* scheduling did start auto-rotation.
C3_Witness == cancelledByStart # {} /\ startedBy # {} /\ autoRotate

\* C4: at most one idle timer is pending at any time; a timer replaced by a
\* new scheduling never fires, and only the most recently scheduled timer
\* emits controls:auto-rotate-started, at most once.
C4_SingleIdleTimer ==
  [][ /\ Cardinality(pendingTimers') <= 1
      /\ replaced' \cap startedBy' = {}
      /\ startedBy' \cap pendingTimers' = {}
      /\ (startedBy' # startedBy => startedBy' = startedBy \cup {autoRotateTimeout}) ]_vars

\* C4 witness: scheduleAutoRotate ran while a timer was pending, and the later
\* timer fired.
C4_Witness == replaced # {} /\ startedBy # {} /\ pendingTimers = {}

\* C5: one emit calls the handlers in descending priority order, handlers of
\* equal priority in registration order.
C5_DescendingPriority ==
  \A i, j \in 1 .. Len(invoked) :
    i < j => \/ invoked[i].priority > invoked[j].priority
             \/ invoked[i].priority = invoked[j].priority /\ invoked[i].reg < invoked[j].reg

C7_OnceAtMostOnce ==
  /\ invokedAgain = {}
  /\ \A j \in 1 .. Len(invoked) :
       invoked[j].once => \A k \in 1 .. Len(listeners) : listeners[k].reg # invoked[j].reg

\* C8: a pointer move emits country:hovered only when the region it resolves to
\* differs from the region hovered before the move.
C8_HoverOnlyOnChange ==
  [][ (lastOp' = "mousemove" /\ events' = <<"country:hovered">>)
        => hoveredCountry'.code # hoveredCountry.code ]_vars

\* C9: a pointer move off the globe emits exactly one country:hover-end when a
\* region was hovered and none otherwise, and leaves no region hovered (so the
\* moves that follow off the surface emit nothing).
C9_SingleHoverEnd ==
  [][ (lastOp' = "mousemove" /\ lastInput'.kind = "off")
        => /\ hoveredCountry' = NoCountry
           /\ hoveredCountry # NoCountry => events' = <<"country:hover-end">>
           /\ hoveredCountry = NoCountry => events' = <<>> ]_vars

\* C9 witness: the pointer left the globe while a region was hovered.
C9_Witness ==
  /\ lastOp = "mousemove" /\ lastInput.kind = "off"
  /\ events = <<"country:hover-end">>

\* C10: a click on a point inside a region's box whose region has no engagement
\* record emits country:no-data and not country:clicked.
C10_NoDataEvent ==
  (/\ lastOp = "click" /\ lastInput.kind = "point"
   /\ FirstBox(lastInput.lat, lastInput.lng) # "none"
   /\ FirstBox(lastInput.lat, lastInput.lng) \notin engagements)
    => events = <<"country:no-data">>

\* C11: a click resolving to a point inside a region's box whose region has an
\* engagement record emits country:clicked and then country:focused for that
\* region, in that order.
C11_ClickThenFocus ==
  (/\ lastOp = "click" /\ lastInput.kind = "point"
   /\ FirstBox(lastInput.lat, lastInput.lng) \in engagements)
    => events = <<"country:clicked", "country:focused">>

\* C12: a press-to-release cycle emits controls:click if and only if the
\* pointer moved less than 5px in total between press and release and the
\* release came less than 200 ms after the press.
C12_ClickIffSmallAndShort ==
  (gestureEvents # <<>> /\ gestureEvents[Len(gestureEvents)] = "controls:mouse-up")
    => ((gestureEvents[1] = "controls:click")
          <=> (pressPath < 5 /\ perfNow - mouseDownTime < 200))

\* C13: whenever a frame is rendered while a camera tween is scheduled, the
\* last write to the camera before that render was not OrbitControls.update()
\* (update() was not applied, or the tween wrote after it).
C13_TweenOwnsCamera == renderedTween => renderedWriter # "orbit"

\* C14: a tween that no later request preempts and that has the time to play
\* out eventually completes; a completed tween is never scheduled again, so it
\* emits camera:animation-complete once.
C14_TweenCompletes ==
  /\ (Len(tweens) = 1 /\ tweens[1].startTime + TweenDuration <= MaxFrames * 500)
       ~> (1 \in completed \/ Len(tweens) > 1)
  /\ [][ /\ \A i \in 1 .. Len(rafQ') : rafQ'[i] \notin completed'
         /\ \A i \in 1 .. Len(frameQ') : frameQ'[i] \notin completed'
         /\ completed \subseteq completed' ]_vars

\* C14 witness: the only tween requested has completed and nothing is scheduled.
C14_Witness ==
  /\ Len(tweens) = 1 /\ completed = {1} /\ TweensIdle
  /\ events = <<"camera:animation-complete">>
  /\ camPos = tweens[1].targetPosition

\* C15: every reset-view request starts exactly one camera tween.
C15_OneTweenPerReset ==
  [][ (Len(tweens') # Len(tweens)
         /\ lastOp' \in {"resetView", "controlsResetView", "toolbarHome"})
        => Len(tweens') = Len(tweens) + 1 ]_vars

\* C16: at most one frame callback of Scene.animate is scheduled at any time,
\* and a start() issued while the loop is running schedules nothing and emits
\* nothing.
C16_StartIdempotent ==
  [][ /\ Cardinality(SceneCallbacks(rafQ') \cup SceneCallbacks(frameQ')) <= 1
      /\ (isAnimating /\ sceneOp' = "start")
           => /\ rafQ' = rafQ
              /\ animationId' = animationId
              /\ sceneEvents' = <<>> ]_vars

\* C16 witness: start() was called while the loop was running with its frame
\* callback scheduled, after an earlier stop() and restart.
C16_Witness ==
  /\ sceneOp = "start" /\ sceneEvents = <<>> /\ isAnimating
  /\ SceneCallbacks(rafQ) = {-animationId} /\ now > 0

C18_NoPausedTimeInDelta ==
  [][ (resumed /\ rendered' /\ sceneOp' \in {"animate", "start"})
        => deltaTime' = now' - resumeTime ]_vars

\* C18 witness: the loop ran, was paused over at least one frame and resumed;
\* the first frame after resume() delivered the time since resume().
C18_Witness ==
  /\ sceneOp = "animate" /\ rendered /\ ~resumed
  /\ resumeTime > 0 /\ clock.oldTime = now /\ clock.elapsedTime = deltaTime
  /\ deltaTime = now - resumeTime /\ deltaTime > 0

\* C19: while the render loop is paused the camera pose does not change (an
\* in-flight tween does not advance).
C19_TweenFrozenWhilePaused ==
  [][ (isPaused /\ isPaused') => camPos' = camPos ]_vars

\* C20: every deltaTime delivered with scene:animate is at least 0 and below the
\* longest gap between two frames (a long stall is clamped).
C20_DeltaClamped == deltaTime >= 0 /\ deltaTime < 1500

\* C21: in every reachable state the camera's distance from the orbit target
\* lies within [minDistance, maxDistance] and its polar angle within
\* [minPolarAngle, maxPolarAngle].
C21_ViewportInvariant == WithinDistance(camPos) /\ WithinPolar(camPos)

\* C22: focusCountry with a code that has no known center starts no tween,
\* schedules no frame callback, emits nothing and leaves the camera and the
\* selected and hovered regions as they were.
C22_UnknownCodeIsNoOp ==
  [][ (lastOp' = "focusCountry" /\ lastInput'.kind = "XXX")
        => /\ tweens' = tweens /\ rafQ' = rafQ
           /\ camPos' = camPos
           /\ events' = <<>>
           /\ selectedCountry' = selectedCountry
           /\ hoveredCountry' = hoveredCountry ]_vars

\* C22 witness: focusCountry was called with the unknown code while a tween was
\* scheduled and a region was selected and hovered.
C22_Witness ==
  /\ lastOp = "focusCountry" /\ lastInput.kind = "XXX"
  /\ Len(tweens) = 1 /\ rafQ = <<1>>
  /\ selectedCountry # NoCountry /\ hoveredCountry # NoCountry

\* A coordinate that is a finite number (a string counts when all of it reads
\* as a number) within [lo, hi].
FiniteWithin(v, lo, hi) ==
  /\ (v.t = "number" /\ v.fin) \/ (v.t = "string" /\ v.digits /\ ~v.junk)
  /\ v.n >= lo /\ v.n <= hi

\* C23: the arcs handed to rendering are exactly the arcs of the data file
\* whose four coordinates are finite with latitudes in [-90, 90] and longitudes
\* in [-180, 180], in their original order.
C23_ArcValidation ==
  (arcsLoaded /\ projects # <<>>)
    => arcsData = SelectSeq(projects,
                    LAMBDA a : /\ FiniteWithin(a.startLat, -90, 90)
                               /\ FiniteWithin(a.endLat, -90, 90)
                               /\ FiniteWithin(a.startLng, -180, 180)
                               /\ FiniteWithin(a.endLng, -180, 180))

\* Coordinates on, inside and outside the edges of the boxes, in hundredths of
\* a degree.
GridLats == {-1200, -1100, 0, 80, 110, 135, 151, 400, 600, 2059, 2210, 2230, 3700, 3800}
GridLngs == {5000, 6800, 9500, 9900, 10169, 10360, 10382, 10401, 11400, 11600, 14100, 14200}
BoxesContaining(lat, lng) ==
  {i \in 1 .. Len(CountryBounds) : InBounds(CountryBounds[i], lat, lng)}
BoxIndex(code) == CHOOSE i \in 1 .. Len(CountryBounds) : CountryBounds[i].code = code

\* C24: getEngagementByCoords returns null for a coordinate no box contains;
\* a result is the region of the first box in table order that contains the
\* coordinate, and that region's record is returned whenever it exists;
\* (1.35, 103.82), inside the SGP, MYS and IDN boxes, resolves to SGP.
C24_FirstBoxWins ==
  /\ \A lat \in GridLats, lng \in GridLngs :
       LET r == GetEngagementByCoords(lat, lng)
           hits == BoxesContaining(lat, lng)
       IN /\ hits = {} => r = NoCountry
          /\ r # NoCountry
               => /\ BoxIndex(r.code) \in hits
                  /\ \A j \in hits : BoxIndex(r.code) <= j
                  /\ r.code \in engagements
          /\ (hits # {} /\ \E i \in hits : /\ \A j \in hits : i <= j
                                           /\ CountryBounds[i].code \in engagements)
               => r # NoCountry
  /\ BoxesContaining(135, 10382) = {BoxIndex("SGP"), BoxIndex("MYS"), BoxIndex("IDN")}
  /\ "SGP" \in engagements => GetEngagementByCoords(135, 10382).code = "SGP"

\* C24 witness: a click on (1.35, 103.82) selected SGP while MYS, whose box
\* also contains the point, has a record too.
C24_Witness ==
  /\ lastOp = "click" /\ lastInput.lat = 135 /\ lastInput.lng = 10382
  /\ selectedCountry.code = "SGP" /\ events = <<"country:clicked">>
  /\ "MYS" \in engagements

\* C25: the interpolation factor lies in [0, 1] and does not decrease with the
\* weight; a region of weight 0 gets exactly the neutral color and a region of
\* weight 10 or more exactly the highlight color.
C25_ColorEncoding ==
  /\ feature.data.present
       => /\ Intensity(feature.data.projectCount) >= 0
          /\ Intensity(feature.data.projectCount) <= 10
          /\ \A w \in -2 .. feature.data.projectCount :
               Intensity(w) <= Intensity(feature.data.projectCount)
  /\ (feature.data.present /\ feature.data.projectCount = 0)
       => polygonColor = NeutralColor
  /\ (feature.data.present /\ feature.data.projectCount >= 10)
       => polygonColor = HighlightColor

\* C26: the altitude of every region lies in a fixed band, and every region
\* other than the home region lies lower than the home region.
C26_AltitudeEncoding ==
  feature.isoCode # "none"
    => /\ polygonAltitude >= 50 /\ polygonAltitude <= HomeAltitude
       /\ feature.isoCode # "IND" => polygonAltitude < HomeAltitude

\* C27: when the last setup of the controller found the camera or the renderer
\* missing, Controls is not initialized, controls:initialized was never
\* emitted, App.initialize has ended in its catch block, and the application
\* is neither initialized nor started: the render loop is not running.
C27_MissingHandlesFatal ==
  (setupCall.called /\ (~setupCall.camera \/ ~setupCall.renderer))
    => /\ ~controlsIsInitialized
       /\ \A i \in 1 .. Len(bootEvents) : bootEvents[i] # "controls:initialized"
       /\ appPc = "failed"
       /\ bootEvents[Len(bootEvents)] = "app:error"
       /\ ~appIsInitialized
       /\ ~appStarted
       /\ ~isAnimating

\* C27 witness: the scene was initialized and then destroyed before the
\* controller's setup, which found both handles missing.
C27_Witness ==
  /\ setupCall.called /\ ~setupCall.camera /\ ~setupCall.renderer
  /\ sceneIsInitialized
  /\ appPc = "failed"

\* C28: once DataManager.destroy() has run, the notes item of localStorage
\* holds the notes that destroy saved, whatever timers and unload listeners
\* run afterwards.
C28_NotesNeverLost ==
  dmDestroyed => storedNotes = [present |-> TRUE, notes |-> savedAtDestroy]

\* C29: when a click on the canvas that hit a country with engagement data
\* (country:clicked) has been fully dispatched, the engagement panel is
\* visible and shows that country.
C29_ClickShowsPanel ==
  (panelOp = "canvas" /\ lastOp = "click" /\ events = <<"country:clicked">>)
    => /\ panel.isVisible
       /\ panel.currentCountryData = selectedCountry.code

\* The last pointToLatLng was given the point of the last getLocationCoords.
RoundTripDone ==
  /\ geoOutput.point = geoPoint
  /\ geoPoint # [x |-> 0, y |-> 0, z |-> 0]

\* C30 as stated: for every latitude in [-90, 90] and longitude in [-180, 180]
\* the round trip recovers the coordinate.
C30_RoundTrip ==
  RoundTripDone => (geoOutput.lat = geoInput.lat /\ geoOutput.lng = geoInput.lng)

\* C30 amended: the latitude is always recovered; away from the poles a
\* longitude strictly between -180 and 180 is recovered, and a longitude of
\* -180 or 180 comes back as -180 or 180.
C30_RoundTripOffPoles ==
  RoundTripDone
    => /\ geoOutput.lat = geoInput.lat
       /\ (geoInput.lat \notin {-90, 90} /\ geoInput.lng \notin {-180, 180})
            => geoOutput.lng = geoInput.lng
       /\ (geoInput.lat \notin {-90, 90} /\ geoInput.lng \in {-180, 180})
            => geoOutput.lng \in {-180, 180}

\* C30 witness: a round trip in the western hemisphere, where the longitude
\* is wrapped by 360 degrees.
C30_Witness ==
  /\ RoundTripDone
  /\ geoInput = [lat |-> 0, lng |-> -135]
  /\ geoOutput.lng = -135

\* The registrations held by a listener array.
Regs(arr) == {arr[i].reg : i \in 1 .. Len(arr)}

\* TRUE iff a handler invoked by the last emit called off(event, callback 1)
HandlerCalledOff ==
  \E i \in 1 .. Len(invoked) : HandlerBody(invoked[i].callback) = "off"

\* C31: after an emit, every non-once listener that was registered when the
\* emit began and that no handler unsubscribed is still registered, and no
\* once-listener the emit invoked is still registered.
C31_EmitRemovesOnlyInvokedOnce ==
  snapshot # <<>>
    => /\ \A i \in 1 .. Len(snapshot) :
            (~snapshot[i].once /\ (snapshot[i].callback # 1 \/ ~HandlerCalledOff))
              => snapshot[i].reg \in Regs(listeners)
       /\ \A i \in 1 .. Len(invoked) :
            invoked[i].once => invoked[i].reg \notin Regs(listeners)

\* C32: a step that emits controls:auto-rotate (toggleAutoRotate) leaves
\* orbitControls.autoRotate the negation of what it was, and the payload of
\* the event is the new value.
C32_ToggleFlips ==
  [][(ctlEvents' \in {<<"controls:auto-rotate:true">>, <<"controls:auto-rotate:false">>})
       => /\ autoRotate' = ~autoRotate
          /\ ctlEvents' = <<IF autoRotate' THEN "controls:auto-rotate:true"
                             ELSE "controls:auto-rotate:false">>]_vars

\* C33: the modal opened last stays displayed with its content until hide()
\* is called for it, and onHide is invoked only for a modal hide() was called
\* for.
C33_ModalSurvivesStaleHide ==
  /\ onHideCalled \subseteq hideIssued
  /\ (nextModal > 1 /\ (nextModal - 1) \notin hideIssued)
       => /\ modal.isVisible
          /\ modal.display
          /\ modal.content = nextModal - 1

\* C34: when the engagement panel is visible and none of its timeouts is
\* pending, it does not carry the hidden class and its currentCountryData is
\* the data of the latest show() (the country of the last navigation click,
\* the only show() that leaves the panel visible).
C34_PanelConsistentAfterTimers ==
  (panel.isVisible /\ panel.showTimers = 0 /\ panel.hideTimers = 0)
    => /\ ~panel.hidden
       /\ lastOp = "focusCountry"
       /\ panel.currentCountryData = lastInput.kind

\* C35: a load timeout that fires after Globe.destroy() raises no error and
\* makes no call on the globe instance.
C35_NoLoadAfterDestroy ==
  (loadOutcome.ran /\ loadOutcome.afterDestroy)
    => /\ loadOutcome.arcs \in {"none", "skipped"}
       /\ loadOutcome.labels \in {"none", "skipped"}

\* C36: when a release on the canvas has selected a region (country:clicked),
\* Controls emitted controls:click for that press-release cycle.
C36_DragNeverSelects ==
  (~pressed /\ lastOp = "click" /\ events = <<"country:clicked">>
     /\ gestureEvents # <<>> /\ gestureEvents[Len(gestureEvents)] = "controls:mouse-up")
    => gestureEvents[1] = "controls:click"

\* C37: the wasClick field of a controls:mouse-up event is true exactly when
\* controls:click was emitted for the same press-release cycle.
C37_WasClickMatchesClick ==
  (gestureEvents # <<>> /\ gestureEvents[Len(gestureEvents)] = "controls:mouse-up")
    => (wasClick <=> (gestureEvents[1] = "controls:click"))

\* C38: hoveredCountry changes from a region to null only in a step that emits
\* country:hover-end (resetView included).
C38_HoverEndPaired ==
  [][ (hoveredCountry # NoCountry /\ hoveredCountry' = NoCountry)
        => events' = <<"country:hover-end">> ]_vars

\* C39: the elapsedTime delivered with scene:animate never decreases from one
\* scene:animate to the next, over any sequence of start/pause/resume calls.
C39_ElapsedMonotonic == [][elapsedTime' >= elapsedTime]_vars

\* C40: when stop() has left the loop stopped, the Scene method that called it
\* did not use the renderer afterwards and no frame of the loop is pending.
C40_StoppedLoopIsQuiet ==
  ~isAnimating => /\ ~rendered
                  /\ SceneCallbacks(rafQ) = {}

=============================================================================
